---- MODULE Spec2Model ----
(***************************************************************************)
(* Model of the WikiRace event pipeline (scraper/main.py and               *)
(* scraper/sources/common.py): source running, deduplication, final        *)
(* filtering, id assignment, quality snapshot and exit code, and the       *)
(* normalizer functions is_generic_url, is_reasonable_future_date and      *)
(* parse_price, each under a specification of its own.                     *)
(*                                                                         *)
(* Python values are represented as follows.  A str is a TLA+ string and   *)
(* is taken apart with Len/SubSeq.  An Optional value is a sequence of     *)
(* length at most one: None is << >> and a present value v is << v >>.     *)
(* A list is a sequence, a dict is a sequence of entries in insertion      *)
(* order (or a function when its order is never observed).                 *)
(***************************************************************************)
EXTENDS Integers, Sequences, FiniteSets, TLC

VARIABLES
    pc,            \* position of the running function
    today,         \* datetime.utcnow().date(), as a day ordinal
    job,           \* index into source_jobs of the next job of main's loop
    invoked,       \* names of the fetch operations called so far, in order
    results,       \* main's list of SourceResult
    all_events,    \* concatenated candidate list (input of _deduplicate)
    deduped,       \* output of _deduplicate (input of _final_filter)
    final_events,  \* output of _final_filter, ids then mutated in place
    given,         \* the argument as it was handed to the function under study
    seen,          \* the dict of _ensure_unique_ids
    pos,           \* loop position of _ensure_unique_ids (1-based)
    quality,       \* result of _quality_snapshot
    output,        \* the events artifact
    exit_code,     \* return value of main
    ret,           \* return value of the function under study
    writes,        \* per event of the final list, the assignments to its id so far
    report         \* the report the validator command wrote

vars == <<pc, today, job, invoked, results, all_events, deduped,
          final_events, given, seen, pos, quality, output, exit_code, ret,
          writes, report>>

(***************************************************************************)
(* Bounds of the model.                                                    *)
(***************************************************************************)
MaxIdEvents == 4

MaxDedupEvents == 3

MaxFilterEvents == 3

NumSources == 2

MaxQualityEvents == 3

MaxCountries == 12

(***************************************************************************)
(* Python values.                                                          *)
(***************************************************************************)
None == << >>

Some(v) == << v >>

\* bool(x) of an Optional[str]: neither None nor the empty string
Truthy(opt) == opt # None /\ opt[1] # ""

RECURSIVE SeqsUpTo(_, _)
\* all lists of at most n elements of S
SeqsUpTo(S, n) ==
    IF n = 0 THEN { << >> }
    ELSE LET shorter == SeqsUpTo(S, n - 1)
         IN  shorter \cup { Append(s, e) : s \in { t \in shorter : Len(t) = n - 1 }, e \in S }

(***************************************************************************)
(* str operations.                                                         *)
(***************************************************************************)
CharAt(s, i) == SubSeq(s, i, i)

\* the set of the characters of a string
CharsOf(s) == { CharAt(s, i) : i \in 1..Len(s) }

UpperChars == "ABCDEFGHIJKLMNOPQRSTUVWXYZ"

LowerChars == "abcdefghijklmnopqrstuvwxyz"

DigitChars == "0123456789"

UpperSet == CharsOf(UpperChars)

\* [a-z0-9]
LowerAlnumSet == CharsOf(LowerChars \o DigitChars)

\* what \s matches
WhitespaceSet == CharsOf(" \t\n\r")

LowerOf == [c \in UpperSet |-> CharAt(LowerChars, CHOOSE i \in 1..26 : CharAt(UpperChars, i) = c)]

LowerChar(c) == IF c \in UpperSet THEN LowerOf[c] ELSE c

RECURSIVE JoinRange(_, _, _)
\* "".join(pieces[lo..hi]), by halves
JoinRange(pieces, lo, hi) ==
    IF lo > hi THEN ""
    ELSE IF lo = hi THEN pieces[lo]
    ELSE JoinRange(pieces, lo, (lo + hi) \div 2) \o JoinRange(pieces, ((lo + hi) \div 2) + 1, hi)

\* "".join(pieces)
Join(pieces) == JoinRange(pieces, 1, Len(pieces))

\* str.lower()
Lower(s) == Join([i \in 1..Len(s) |-> LowerChar(CharAt(s, i))])

\* sub in s
Contains(s, sub) == \E i \in 1..(Len(s) - Len(sub) + 1) : SubSeq(s, i, i + Len(sub) - 1) = sub

\* s.startswith(prefix)
StartsWith(s, prefix) == Len(s) >= Len(prefix) /\ SubSeq(s, 1, Len(prefix)) = prefix

\* re.sub of every maximal run of characters of a class by rep; the class is
\* the characters of the set chars when inside, the other characters when not
SubRuns(s, chars, inside, rep) ==
    LET hit(i) == (CharAt(s, i) \in chars) = inside
    IN  Join([i \in 1..Len(s) |->
                IF ~hit(i) THEN CharAt(s, i)
                ELSE IF i > 1 /\ hit(i - 1) THEN ""
                ELSE rep])

RECURSIVE LStrip(_, _)
LStrip(s, chars) ==
    IF s # "" /\ CharAt(s, 1) \in chars THEN LStrip(Tail(s), chars) ELSE s

RECURSIVE RStrip(_, _)
RStrip(s, chars) ==
    IF s # "" /\ CharAt(s, Len(s)) \in chars
    THEN RStrip(SubSeq(s, 1, Len(s) - 1), chars)
    ELSE s

\* s.strip(chars), chars a set of characters
Strip(s, chars) == RStrip(LStrip(s, chars), chars)

\* smallest index >= from of a character of chars in s, Len(s) + 1 if none
FindFirst(s, chars, from) ==
    LET hits == { i \in from..Len(s) : CharAt(s, i) \in chars }
    IN  IF hits = {} THEN Len(s) + 1 ELSE CHOOSE i \in hits : \A j \in hits : i <= j

(***************************************************************************)
(* Normalizer (sources/common.py).                                         *)
(***************************************************************************)
\* clean_text of a str; clean_text(None) is clean_text("")
clean_text(value) ==
    IF value = "" THEN "" ELSE Strip(SubRuns(value, WhitespaceSet, TRUE, " "), WhitespaceSet)

\* None is << >>, a kept url is << url >>
sanitize_url(url) ==
    LET value == clean_text(url)
        fixed == IF StartsWith(value, "//") THEN "https:" \o value ELSE value
    IN  IF value = "" THEN None
        ELSE IF ~StartsWith(fixed, "http://") /\ ~StartsWith(fixed, "https://") THEN None
        ELSE Some(fixed)

\* urllib.parse.urlparse of a url that starts with http:// or https://
urlparse(value) ==
    LET start == IF StartsWith(value, "https://") THEN 9 ELSE 8
        netlocEnd == FindFirst(value, {"/", "?", "#"}, start)
        pathEnd == FindFirst(value, {"?", "#"}, netlocEnd)
        queryEnd == FindFirst(value, {"#"}, pathEnd)
    IN  [netloc |-> SubSeq(value, start, netlocEnd - 1),
         path |-> SubSeq(value, netlocEnd, pathEnd - 1),
         query |-> SubSeq(value, pathEnd + 1, queryEnd - 1)]

UltrasignupDomains == {"ultrasignup.com", "www.ultrasignup.com"}

BareLandingDomains == {"itra.run", "www.itra.run", "ultrasignup.com", "www.ultrasignup.com"}

ExampleDomains == {"example.com", "www.example.com"}

\* mutant: the registration page of ultrasignup is generic whatever its query
is_generic_url_eid_unchecked(url) ==
    LET value == sanitize_url(url)
        parsed == urlparse(value[1])
        domain == Lower(parsed.netloc)
        path == Strip(parsed.path, {"/"})
        query == Lower(parsed.query)
    IN  IF value = None THEN TRUE
        ELSE IF Contains(domain, "google.com") /\ Contains(path, "search") THEN TRUE
        ELSE IF domain \in UltrasignupDomains /\ path = "register.aspx" THEN TRUE
        ELSE IF domain \in BareLandingDomains /\ path = "" THEN TRUE
        ELSE IF domain \in ExampleDomains THEN TRUE
        ELSE IF path = "" /\ query = "" THEN TRUE
        ELSE FALSE

is_generic_url(url) ==
    LET value == sanitize_url(url)
        parsed == urlparse(value[1])
        domain == Lower(parsed.netloc)
        path == Strip(parsed.path, {"/"})
        query == Lower(parsed.query)
    IN  IF value = None THEN TRUE
        ELSE IF Contains(domain, "google.com") /\ Contains(path, "search") THEN TRUE
        ELSE IF domain \in UltrasignupDomains /\ path = "register.aspx" THEN ~Contains(query, "eid=")
        ELSE IF domain \in BareLandingDomains /\ path = "" THEN TRUE
        ELSE IF domain \in ExampleDomains THEN TRUE
        ELSE IF path = "" /\ query = "" THEN TRUE
        ELSE FALSE

(***************************************************************************)
(* Dates: datetime.strptime(text, "%Y-%m-%d") and date ordinals.           *)
(***************************************************************************)
DigitSet == CharsOf(DigitChars)

DigitValue == [c \in DigitSet |-> (CHOOSE i \in 1..10 : CharAt(DigitChars, i) = c) - 1]

\* the texts %m accepts: 1[0-2]|0[1-9]|[1-9]
MonthTokens ==
    [t \in { ToString(n) : n \in 1..12 } \cup { "0" \o ToString(n) : n \in 1..9 } |->
        CHOOSE n \in 1..12 : t = ToString(n) \/ t = "0" \o ToString(n)]

\* the texts %d accepts: 3[01]|[12]\d|0[1-9]|[1-9]| [1-9]
DayTokens ==
    [t \in { ToString(n) : n \in 1..31 } \cup { "0" \o ToString(n) : n \in 1..9 }
           \cup { " " \o ToString(n) : n \in 1..9 } |->
        CHOOSE n \in 1..31 : t = ToString(n) \/ t = "0" \o ToString(n) \/ t = " " \o ToString(n)]

IsLeap(y) == y % 4 = 0 /\ (y % 100 # 0 \/ y % 400 = 0)

DaysInMonth(y, m) ==
    IF m = 2 THEN (IF IsLeap(y) THEN 29 ELSE 28)
    ELSE IF m \in {4, 6, 9, 11} THEN 30 ELSE 31

DaysBeforeMonth(y, m) ==
    << 0, 31, 59, 90, 120, 151, 181, 212, 243, 273, 304, 334 >>[m]
    + (IF m > 2 /\ IsLeap(y) THEN 1 ELSE 0)

\* date(y, m, d).toordinal()
Ordinal(y, m, d) ==
    (y - 1) * 365 + ((y - 1) \div 4) - ((y - 1) \div 100) + ((y - 1) \div 400)
    + DaysBeforeMonth(y, m) + d

\* datetime.strptime(text, "%Y-%m-%d").date() as an ordinal; None stands for
\* ValueError
strptime_ymd(text) ==
    LET dash1 == FindFirst(text, {"-"}, 1)
        dash2 == FindFirst(text, {"-"}, dash1 + 1)
        ytext == SubSeq(text, 1, 4)
        mtext == SubSeq(text, 6, dash2 - 1)
        dtext == SubSeq(text, dash2 + 1, Len(text))
        y == 1000 * DigitValue[CharAt(ytext, 1)] + 100 * DigitValue[CharAt(ytext, 2)]
             + 10 * DigitValue[CharAt(ytext, 3)] + DigitValue[CharAt(ytext, 4)]
    IN  IF dash1 # 5 \/ dash2 > Len(text) THEN None
        ELSE IF \E i \in 1..4 : CharAt(ytext, i) \notin DigitSet THEN None
        ELSE IF mtext \notin DOMAIN MonthTokens \/ dtext \notin DOMAIN DayTokens THEN None
        ELSE IF y < 1 \/ DayTokens[dtext] > DaysInMonth(y, MonthTokens[mtext]) THEN None
        ELSE Some(Ordinal(y, MonthTokens[mtext], DayTokens[dtext]))

FUTURE_MONTHS_DEFAULT == 18

\* mutant: the lower bound is today, not yesterday
is_reasonable_future_date_from_today(date_iso, max_months) ==
    LET event_date == strptime_ymd(date_iso)
    IN  IF date_iso = "" THEN FALSE
        ELSE IF event_date = None THEN FALSE
        ELSE today <= event_date[1] /\ event_date[1] <= today + max_months * 31

\* reads the clock: today is datetime.utcnow().date()
is_reasonable_future_date(date_iso, max_months) ==
    LET event_date == strptime_ymd(date_iso)
        lower == today - 1
        upper == today + max_months * 31
    IN  IF date_iso = "" THEN FALSE
        ELSE IF event_date = None THEN FALSE
        ELSE lower <= event_date[1] /\ event_date[1] <= upper

(***************************************************************************)
(* Date texts: parse_date_to_iso (common.py 88-118).  A strptime format is *)
(* held as the separator between its three fields, the three directives    *)
(* in order, and the number of the field a comma follows (0 for none).     *)
(***************************************************************************)
RECURSIVE ParseInt(_)
\* the number a text of digits stands for
ParseInt(digits) ==
    IF digits = "" THEN 0
    ELSE 10 * ParseInt(SubSeq(digits, 1, Len(digits) - 1))
         + DigitValue[CharAt(digits, Len(digits))]

RECURSIVE StripParens(_)
\* re.sub(r"\([^)]*\)", "", raw)
StripParens(raw) ==
    LET open == FindFirst(raw, {"("}, 1)
        close == FindFirst(raw, {")"}, open + 1)
    IN  IF open > Len(raw) \/ close > Len(raw) THEN raw
        ELSE SubSeq(raw, 1, open - 1) \o StripParens(SubSeq(raw, close + 1, Len(raw)))

\* smallest index >= from of a character of s that is not in chars,
\* Len(s) + 1 if none
FindFirstNot(s, chars, from) ==
    LET hits == { i \in from..Len(s) : CharAt(s, i) \notin chars }
    IN  IF hits = {} THEN Len(s) + 1 ELSE CHOOSE i \in hits : \A j \in hits : i <= j

\* re.sub(r"^(\d{1,2})-\d{1,2}\s+", r"\1 ", raw)
StripRangePrefix(raw) ==
    LET firstEnd == FindFirstNot(raw, DigitSet, 1)
        secondEnd == FindFirstNot(raw, DigitSet, firstEnd + 1)
        spaceEnd == FindFirstNot(raw, WhitespaceSet, secondEnd)
    IN  IF /\ firstEnd \in {2, 3}
           /\ firstEnd <= Len(raw)
           /\ CharAt(raw, firstEnd) = "-"
           /\ secondEnd - (firstEnd + 1) \in {1, 2}
           /\ spaceEnd > secondEnd
        THEN SubSeq(raw, 1, firstEnd - 1) \o " " \o SubSeq(raw, spaceEnd, Len(raw))
        ELSE raw

\* raw.replace(",", ", ")
SpaceAfterCommas(raw) ==
    Join([i \in 1..Len(raw) |-> IF CharAt(raw, i) = "," THEN ", " ELSE CharAt(raw, i)])

RECURSIVE Tokens(_, _)
\* the pieces of a text between the occurrences of a separator character
Tokens(text, sep) ==
    LET at == FindFirst(text, {sep}, 1)
    IN  IF at > Len(text) THEN << text >>
        ELSE << SubSeq(text, 1, at - 1) >> \o Tokens(SubSeq(text, at + 1, Len(text)), sep)

\* what %b accepts, in lower case
MonthAbbreviations ==
    << "jan", "feb", "mar", "apr", "may", "jun", "jul", "aug", "sep", "oct", "nov", "dec" >>

\* what %B accepts, in lower case
MonthNames ==
    << "january", "february", "march", "april", "may", "june", "july", "august",
       "september", "october", "november", "december" >>

\* the number a directive reads from a token, None if it does not accept it
FieldValue(directive, token) ==
    IF directive = "Y"
    THEN IF Len(token) = 4 /\ \A i \in 1..4 : CharAt(token, i) \in DigitSet
         THEN Some(ParseInt(token)) ELSE None
    ELSE IF directive = "m"
    THEN IF token \in DOMAIN MonthTokens THEN Some(MonthTokens[token]) ELSE None
    ELSE IF directive = "d"
    THEN IF token \in DOMAIN DayTokens THEN Some(DayTokens[token]) ELSE None
    ELSE LET names == IF directive = "b" THEN MonthAbbreviations ELSE MonthNames
             hits == { i \in 1..12 : names[i] = Lower(token) }
         IN  IF hits = {} THEN None ELSE Some(CHOOSE i \in hits : TRUE)

DateFormat(sep, directives, comma) == [sep |-> sep, directives |-> directives, comma |-> comma]

\* the tuple `formats`, in order
DateFormats ==
    << DateFormat("-", << "Y", "m", "d" >>, 0),
       DateFormat("/", << "m", "d", "Y" >>, 0),
       DateFormat("/", << "d", "m", "Y" >>, 0),
       DateFormat(" ", << "d", "b", "Y" >>, 2),
       DateFormat(" ", << "d", "B", "Y" >>, 2),
       DateFormat(" ", << "b", "d", "Y" >>, 2),
       DateFormat(" ", << "B", "d", "Y" >>, 2),
       DateFormat(" ", << "d", "b", "Y" >>, 0),
       DateFormat(" ", << "d", "B", "Y" >>, 0) >>

\* datetime.strptime(raw, fmt): None for ValueError, else the date as a record
strptime(raw, format) ==
    LET tokens == Tokens(raw, format.sep)
        bare(i) == IF i = format.comma THEN SubSeq(tokens[i], 1, Len(tokens[i]) - 1) ELSE tokens[i]
        value(directive) ==
            LET i == CHOOSE k \in 1..3 : format.directives[k] \in directive
            IN  FieldValue(format.directives[i], bare(i))
        year == value({"Y"})
        month == value({"m", "b", "B"})
        day == value({"d"})
    IN  IF Len(tokens) # 3 THEN None
        ELSE IF format.comma # 0 /\ (tokens[format.comma] = ""
                                      \/ CharAt(tokens[format.comma], Len(tokens[format.comma])) # ",")
        THEN None
        ELSE IF year = None \/ month = None \/ day = None THEN None
        ELSE IF year[1] < 1 \/ day[1] > DaysInMonth(year[1], month[1]) THEN None
        ELSE Some([year |-> year[1], month |-> month[1], day |-> day[1]])

\* strftime("%Y-%m-%d") of a date of a year of four digits
strftime_ymd(date) ==
    ToString(date.year) \o "-"
    \o (IF date.month < 10 THEN "0" ELSE "") \o ToString(date.month) \o "-"
    \o (IF date.day < 10 THEN "0" ELSE "") \o ToString(date.day)

RECURSIVE TryFormats(_, _)
\* the loop over formats from position i on: the first format that parses
TryFormats(raw, i) ==
    IF i > Len(DateFormats) THEN None
    ELSE LET parsed == strptime(raw, DateFormats[i])
         IN  IF parsed # None THEN Some(strftime_ymd(parsed[1])) ELSE TryFormats(raw, i + 1)

\* mutant: the day range in front is left in place
parse_date_to_iso_range_kept(date_str) ==
    LET raw == clean_text(date_str)
        stripped == Strip(StripParens(raw), WhitespaceSet)
        spaced == clean_text(SpaceAfterCommas(stripped))
    IN  IF raw = "" THEN None ELSE TryFormats(spaced, 1)

\* date_str None is given as ""
parse_date_to_iso(date_str) ==
    LET raw == clean_text(date_str)
        stripped == StripRangePrefix(Strip(StripParens(raw), WhitespaceSet))
        spaced == clean_text(SpaceAfterCommas(stripped))
    IN  IF raw = "" THEN None ELSE TryFormats(spaced, 1)

(***************************************************************************)
(* Prices: parse_price (common.py 229-250).  A float is held as a decimal  *)
(* number [mantissa, scale] that stands for mantissa / 10^scale, without   *)
(* trailing zeros, so that 12.50 and 12.5 are the same value.              *)
(***************************************************************************)
UpperOf == [c \in CharsOf(LowerChars) |-> CharAt(UpperChars, CHOOSE i \in 1..26 : CharAt(LowerChars, i) = c)]

UpperChar(c) == IF c \in DOMAIN UpperOf THEN UpperOf[c] ELSE c

\* str.upper()
Upper(s) == Join([i \in 1..Len(s) |-> UpperChar(CharAt(s, i))])

RECURSIVE Decimal(_, _)
Decimal(mantissa, scale) ==
    IF scale > 0 /\ mantissa % 10 = 0 THEN Decimal(mantissa \div 10, scale - 1)
    ELSE [mantissa |-> mantissa, scale |-> scale]

\* float(whole + "." + fraction), float(whole) when fraction is empty
float(whole, fraction) == Decimal(ParseInt(whole \o fraction), Len(fraction))

\* re.search(r"(\d+(?:[.,]\d+)?)", text): None, or the digits before and
\* behind the separator of the first match
SearchNumber(text) ==
    LET start == FindFirst(text, DigitSet, 1)
        wholeEnd == FindFirstNot(text, DigitSet, start)
        fractionEnd == FindFirstNot(text, DigitSet, wholeEnd + 1)
        hasFraction == /\ wholeEnd < Len(text)
                       /\ CharAt(text, wholeEnd) \in {".", ","}
                       /\ CharAt(text, wholeEnd + 1) \in DigitSet
    IN  IF start > Len(text) THEN None
        ELSE Some([whole |-> SubSeq(text, start, wholeEnd - 1),
                   fraction |-> IF hasFraction THEN SubSeq(text, wholeEnd + 1, fractionEnd - 1)
                                ELSE ""])

\* the pair (amount, currency); raw_price None is given as ""
parse_price(raw_price) ==
    LET text == clean_text(raw_price)
        upper == Upper(text)
        currency == IF Contains(upper, " EUR") \/ Contains(text, "€") THEN Some("EUR")
                    ELSE IF Contains(upper, " USD") \/ Contains(text, "$") THEN Some("USD")
                    ELSE IF Contains(upper, " GBP") \/ Contains(text, "£") THEN Some("GBP")
                    ELSE IF Contains(upper, " MAD") THEN Some("MAD")
                    ELSE None
        match == SearchNumber(text)
    IN  IF text = "" THEN << None, None >>
        ELSE IF match = None THEN << None, currency >>
        ELSE << Some(float(match[1].whole, match[1].fraction)), currency >>

(***************************************************************************)
(* Noise keywords.                                                         *)
(***************************************************************************)
\* the alternatives of NOISE_PATTERN
NoiseWords ==
    {"membership", "volunteer", "volunteers", "training", "camp", "clinic", "coaching",
     "fundraiser", "fundraising", "charity gala", "party", "festival volunteers",
     "reservation", "reservations", "lottery", "raffle", "summit", "expo only",
     "sponsor", "team membership", "subscription", "grand prix series"}

\* what \w matches
WordSet == CharsOf(LowerChars \o UpperChars \o DigitChars \o "_")

\* re.search(r"\b" + word + r"\b", text), for a word that starts and ends
\* with a word character
SearchWord(text, word) ==
    \E i \in 1..(Len(text) - Len(word) + 1) :
        /\ SubSeq(text, i, i + Len(word) - 1) = word
        /\ (i = 1 \/ CharAt(text, i - 1) \notin WordSet)
        /\ (i + Len(word) > Len(text) \/ CharAt(text, i + Len(word)) \notin WordSet)

is_noise_event(name, distances, description) ==
    LET haystack == Lower(clean_text(name \o " " \o distances \o " " \o description))
    IN  IF haystack = "" THEN TRUE
        ELSE \E word \in NoiseWords : SearchWord(haystack, word)

(***************************************************************************)
(* Distance category: infer_distance (common.py 142-168).                  *)
(***************************************************************************)
\* mutant: the marathon rule is tried before the half-marathon rule
infer_distance_marathon_first(name, distances, discipline_hint) ==
    LET text == Lower(clean_text(name \o " " \o distances \o " " \o discipline_hint))
    IN  IF Contains(text, "70.3") \/ Contains(text, "half ironman") THEN "Half Ironman"
        ELSE IF Contains(text, "5k") \/ Contains(text, "5 km") THEN "5km"
        ELSE IF Contains(text, "10k") \/ Contains(text, "10 km") THEN "10km"
        ELSE IF Contains(text, "marathon") THEN "Marathon"
        ELSE IF Contains(text, "half marathon") \/ SearchWord(text, "21k") THEN "Half Marathon"
        ELSE IF \/ Contains(text, "ultra")
                \/ Contains(text, "50k")
                \/ Contains(text, "100k")
                \/ Contains(text, "50 mile")
                \/ Contains(text, "100 mile")
                \/ Contains(text, "trail") THEN "Ultra Trail"
        ELSE IF Contains(text, "ironman") \/ Contains(text, "triathlon") \/ Contains(text, "duathlon")
        THEN "Ironman"
        ELSE IF Contains(text, "running") THEN "10km"
        ELSE "Marathon"

infer_distance(name, distances, discipline_hint) ==
    LET text == Lower(clean_text(name \o " " \o distances \o " " \o discipline_hint))
    IN  IF Contains(text, "70.3") \/ Contains(text, "half ironman") THEN "Half Ironman"
        ELSE IF Contains(text, "5k") \/ Contains(text, "5 km") THEN "5km"
        ELSE IF Contains(text, "10k") \/ Contains(text, "10 km") THEN "10km"
        ELSE IF Contains(text, "half marathon") \/ SearchWord(text, "21k") THEN "Half Marathon"
        ELSE IF Contains(text, "marathon") THEN "Marathon"
        ELSE IF \/ Contains(text, "ultra")
                \/ Contains(text, "50k")
                \/ Contains(text, "100k")
                \/ Contains(text, "50 mile")
                \/ Contains(text, "100 mile")
                \/ Contains(text, "trail") THEN "Ultra Trail"
        ELSE IF Contains(text, "ironman") \/ Contains(text, "triathlon") \/ Contains(text, "duathlon")
        THEN "Ironman"
        ELSE IF Contains(text, "running") THEN "10km"
        ELSE "Marathon"

(***************************************************************************)
(* Event records (models.py 9-30).  Fields no modelled code reads (city,   *)
(* country, elevationGain, imageUrl, currency, gpxUrl) are left out.       *)
(* registrationStatus, price, websiteUrl and source are Optional.          *)
(***************************************************************************)
RaceEvent(id, name, date, countryCode, discipline, distance, description, registrationUrl, price, registrationStatus, websiteUrl, source, isFallback) ==
    [id |-> id, name |-> name, date |-> date, countryCode |-> countryCode,
     discipline |-> discipline, distance |-> distance, description |-> description,
     registrationUrl |-> registrationUrl, price |-> price,
     registrationStatus |-> registrationStatus, websiteUrl |-> websiteUrl,
     source |-> source, isFallback |-> isFallback]

(***************************************************************************)
(* Deduplicator: _normalize_name, _event_score, _deduplicate               *)
(* (main.py 49-77).                                                        *)
(***************************************************************************)
\* re.sub(r"[^a-z0-9]+", " ", name.lower()).strip()
normalize_name(name) ==
    Strip(SubRuns(Lower(name), LowerAlnumSet, FALSE, " "), WhitespaceSet)

\* mutant: a description of exactly 60 characters earns the point
event_score_description_from_60(event) ==
    (IF event.registrationUrl # "" /\ ~is_generic_url(event.registrationUrl) THEN 4 ELSE 0)
    + (IF event.description # "" /\ Len(event.description) >= 60 THEN 1 ELSE 0)
    + (IF Truthy(event.registrationStatus) THEN 1 ELSE 0)
    + (IF event.price # None THEN 1 ELSE 0)
    + (IF Truthy(event.websiteUrl) THEN 1 ELSE 0)
    + (IF ~event.isFallback THEN 2 ELSE 0)

event_score(event) ==
    (IF event.registrationUrl # "" /\ ~is_generic_url(event.registrationUrl) THEN 4 ELSE 0)
    + (IF event.description # "" /\ Len(event.description) > 60 THEN 1 ELSE 0)
    + (IF Truthy(event.registrationStatus) THEN 1 ELSE 0)
    + (IF event.price # None THEN 1 ELSE 0)
    + (IF Truthy(event.websiteUrl) THEN 1 ELSE 0)
    + (IF ~event.isFallback THEN 2 ELSE 0)

\* the identity key; countryCode is a str, so `countryCode or ""` is itself
DedupKey(event) ==
    << normalize_name(event.name), event.date, event.countryCode, event.discipline >>

\* position of key in the dict `chosen` (entries in insertion order), 0 if absent
ChosenIndex(chosen, key) ==
    IF \E i \in 1..Len(chosen) : chosen[i].key = key
    THEN CHOOSE i \in 1..Len(chosen) : chosen[i].key = key
    ELSE 0

\* mutant: the first candidate of a key is retained whatever comes later
DedupOneKeepFirst(chosen, event) ==
    LET key == DedupKey(event)
        at == ChosenIndex(chosen, key)
    IN  IF at = 0 THEN Append(chosen, [key |-> key, event |-> event])
        ELSE chosen

\* mutant: a later candidate with an equal score replaces the retained one
DedupOneReplaceOnTie(chosen, event) ==
    LET key == DedupKey(event)
        at == ChosenIndex(chosen, key)
    IN  IF at = 0 THEN Append(chosen, [key |-> key, event |-> event])
        ELSE IF event_score(event) >= event_score(chosen[at].event)
        THEN [chosen EXCEPT ![at].event = event]
        ELSE chosen

\* mutant: a replacing candidate is re-inserted at the end of the dict
DedupOneReinsert(chosen, event) ==
    LET key == DedupKey(event)
        at == ChosenIndex(chosen, key)
    IN  IF at = 0 THEN Append(chosen, [key |-> key, event |-> event])
        ELSE IF event_score(event) > event_score(chosen[at].event)
        THEN Append(SubSeq(chosen, 1, at - 1) \o SubSeq(chosen, at + 1, Len(chosen)),
                    [key |-> key, event |-> event])
        ELSE chosen

\* the loop body: chosen after one more candidate
DedupOne(chosen, event) ==
    LET key == DedupKey(event)
        at == ChosenIndex(chosen, key)
    IN  IF at = 0 THEN Append(chosen, [key |-> key, event |-> event])
        ELSE IF event_score(event) > event_score(chosen[at].event)
        THEN [chosen EXCEPT ![at].event = event]
        ELSE chosen

RECURSIVE DedupFrom(_, _, _)
DedupFrom(events, i, chosen) ==
    IF i > Len(events) THEN chosen
    ELSE DedupFrom(events, i + 1, DedupOne(chosen, events[i]))

\* mutant: the first candidate is skipped by the loop
deduplicate_skip_first(events) ==
    LET chosen == DedupFrom(events, 2, << >>)
    IN  [i \in 1..Len(chosen) |-> chosen[i].event]

\* list(chosen.values())
deduplicate(events) ==
    LET chosen == DedupFrom(events, 1, << >>)
    IN  [i \in 1..Len(chosen) |-> chosen[i].event]

(***************************************************************************)
(* FinalFilter: _final_filter (main.py 80-91).                             *)
(***************************************************************************)
\* the characters of dates and ids in code point order
CodePointOrder == " -0123456789"

CodePoint(c) == CHOOSE i \in 1..Len(CodePointOrder) : CharAt(CodePointOrder, i) = c

RECURSIVE StrLess(_, _)
\* a < b on str
StrLess(a, b) ==
    IF b = "" THEN FALSE
    ELSE IF a = "" THEN TRUE
    ELSE IF CharAt(a, 1) = CharAt(b, 1) THEN StrLess(Tail(a), Tail(b))
    ELSE CodePoint(CharAt(a, 1)) < CodePoint(CharAt(b, 1))

\* mutant: the event is inserted in front of the events of the same date
InsertByDateBeforeEqual(sorted, event) ==
    LET after == { i \in 1..Len(sorted) : ~StrLess(sorted[i].date, event.date) }
        at == IF after = {} THEN Len(sorted) + 1 ELSE CHOOSE i \in after : \A j \in after : i <= j
    IN  SubSeq(sorted, 1, at - 1) \o << event >> \o SubSeq(sorted, at, Len(sorted))

\* insertion of one event behind every event whose date is not greater
InsertByDate(sorted, event) ==
    LET after == { i \in 1..Len(sorted) : StrLess(event.date, sorted[i].date) }
        at == IF after = {} THEN Len(sorted) + 1 ELSE CHOOSE i \in after : \A j \in after : i <= j
    IN  SubSeq(sorted, 1, at - 1) \o << event >> \o SubSeq(sorted, at, Len(sorted))

RECURSIVE SortByDate(_)
\* list.sort(key=lambda e: e.date): a stable sort
SortByDate(events) ==
    IF events = << >> THEN << >>
    ELSE InsertByDate(SortByDate(SubSeq(events, 1, Len(events) - 1)), events[Len(events)])

\* mutant: a generic registration link is let through
FilterKeepsGenericUrl(event) ==
    IF ~is_reasonable_future_date(event.date, 24) THEN FALSE
    ELSE IF event.registrationUrl = "" THEN FALSE
    ELSE IF is_noise_event(event.name, event.distance, event.description) THEN FALSE
    ELSE TRUE

\* mutant: the noise check is left out
FilterKeepsNoNoiseCheck(event) ==
    /\ is_reasonable_future_date(event.date, 24)
    /\ ~(event.registrationUrl = "" \/ is_generic_url(event.registrationUrl))

\* the loop body: TRUE when the event reaches filtered.append
FilterKeeps(event) ==
    IF ~is_reasonable_future_date(event.date, 24) THEN FALSE
    ELSE IF event.registrationUrl = "" \/ is_generic_url(event.registrationUrl) THEN FALSE
    ELSE IF is_noise_event(event.name, event.distance, event.description) THEN FALSE
    ELSE TRUE

final_filter(events) == SortByDate(SelectSeq(events, FilterKeeps))

(***************************************************************************)
(* IdAssigner: _ensure_unique_ids (main.py 94-114).                        *)
(***************************************************************************)
Disciplines == {"Running", "Trail", "Triathlon"}

RECURSIVE FirstFreeCounter(_, _, _)
\* while f"{base}-{counter}" in seen: counter += 1
FirstFreeCounter(base, seenIds, counter) ==
    IF (base \o "-" \o ToString(counter)) \in DOMAIN seenIds
    THEN FirstFreeCounter(base, seenIds, counter + 1)
    ELSE counter

\* mutant: the discipline candidate is adopted without looking it up in seen
AssignIdNoCandidateCheck(event, seenIds) ==
    LET base == event.id
        candidate == base \o "-" \o Lower(event.discipline)
    IN  IF base \notin DOMAIN seenIds
        THEN [id |-> base, seen |-> seenIds @@ (base :> 1), branch |-> "keep"]
        ELSE [id |-> candidate, seen |-> (candidate :> 1) @@ seenIds, branch |-> "discipline"]

\* mutant: the discipline is appended as it is written, not lowercased
AssignIdNoLower(event, seenIds) ==
    LET base == event.id
        candidate == base \o "-" \o event.discipline
        counter == FirstFreeCounter(base, seenIds, seenIds[base] + 1)
        numbered == base \o "-" \o ToString(counter)
    IN  IF base \notin DOMAIN seenIds
        THEN [id |-> base, seen |-> seenIds @@ (base :> 1), branch |-> "keep"]
        ELSE IF candidate \notin DOMAIN seenIds
        THEN [id |-> candidate, seen |-> seenIds @@ (candidate :> 1), branch |-> "discipline"]
        ELSE [id |-> numbered,
              seen |-> (base :> counter) @@ (numbered :> 1) @@ seenIds,
              branch |-> "numeric"]

\* mutant: a seen base id goes straight to the numeric suffix
AssignIdNumericOnly(event, seenIds) ==
    LET base == event.id
        counter == FirstFreeCounter(base, seenIds, seenIds[base] + 1)
        numbered == base \o "-" \o ToString(counter)
    IN  IF base \notin DOMAIN seenIds
        THEN [id |-> base, seen |-> seenIds @@ (base :> 1), branch |-> "keep"]
        ELSE [id |-> numbered,
              seen |-> (base :> counter) @@ (numbered :> 1) @@ seenIds,
              branch |-> "numeric"]

\* one iteration of the loop body: the id the event ends with, the dict after
\* it, and the branch taken
AssignId(event, seenIds) ==
    LET base == event.id
        candidate == base \o "-" \o Lower(event.discipline)
        counter == FirstFreeCounter(base, seenIds, seenIds[base] + 1)
        numbered == base \o "-" \o ToString(counter)
    IN  IF base \notin DOMAIN seenIds
        THEN [id |-> base, seen |-> seenIds @@ (base :> 1), branch |-> "keep"]
        ELSE IF candidate \notin DOMAIN seenIds
        THEN [id |-> candidate, seen |-> seenIds @@ (candidate :> 1), branch |-> "discipline"]
        ELSE [id |-> numbered,
              seen |-> (base :> counter) @@ (numbered :> 1) @@ seenIds,
              branch |-> "numeric"]

RECURSIVE EnsureFrom(_, _, _)
\* the loop from position i on, with the dict built so far
EnsureFrom(events, i, seenIds) ==
    IF i > Len(events) THEN events
    ELSE LET r == AssignId(events[i], seenIds)
         IN  EnsureFrom([events EXCEPT ![i].id = r.id], i + 1, r.seen)

\* the whole of _ensure_unique_ids: the list after the in-place mutation
ensure_unique_ids(events) == EnsureFrom(events, 1, << >>)

RECURSIVE WritesFrom(_, _, _)
\* the loop from position i on: how often it assigns to the id of each event
WritesFrom(events, i, seenIds) ==
    IF i > Len(events) THEN << >>
    ELSE LET r == AssignId(events[i], seenIds)
         IN  << IF r.branch = "keep" THEN 0 ELSE 1 >> \o WritesFrom(events, i + 1, r.seen)

\* mutant: keeping an id counts as an assignment
id_writes_keep_counted(events) == [i \in 1..Len(events) |-> 1]

\* the number of assignments `event.id = ...` of _ensure_unique_ids to each
\* event of the list
id_writes(events) == WritesFrom(events, 1, << >>)

\* the ids of a list of events, in list order
IdsOf(events) == [i \in 1..Len(events) |-> events[i].id]

NoDuplicateIds(events) ==
    \A i, j \in 1..Len(events) : i # j => events[i].id # events[j].id

(***************************************************************************)
(* QualitySnapshot: _quality_snapshot (main.py 117-129).                   *)
(***************************************************************************)
\* Counter(values): the distinct values in order of first occurrence, each
\* with its number of occurrences
Counter(values) ==
    LET firsts == SelectSeq([i \in 1..Len(values) |-> i],
                            LAMBDA i : \A j \in 1..(i - 1) : values[j] # values[i])
    IN  [k \in 1..Len(firsts) |->
            [key |-> values[firsts[k]],
             count |-> Cardinality({ j \in 1..Len(values) : values[j] = values[firsts[k]] })]]

\* dict(counter) read as a mapping
AsDict(counted) ==
    [k \in { counted[i].key : i \in 1..Len(counted) } |->
        (CHOOSE e \in { counted[i] : i \in 1..Len(counted) } : e.key = k).count]

\* insertion of one entry behind every entry whose count is not smaller
InsertByCount(sorted, entry) ==
    LET after == { i \in 1..Len(sorted) : sorted[i].count < entry.count }
        at == IF after = {} THEN Len(sorted) + 1 ELSE CHOOSE i \in after : \A j \in after : i <= j
    IN  SubSeq(sorted, 1, at - 1) \o << entry >> \o SubSeq(sorted, at, Len(sorted))

RECURSIVE SortByCount(_)
SortByCount(counted) ==
    IF counted = << >> THEN << >>
    ELSE InsertByCount(SortByCount(SubSeq(counted, 1, Len(counted) - 1)), counted[Len(counted)])

\* mutant: every entry is returned, whatever n
most_common_uncut(counted, n) == SortByCount(counted)

\* counter.most_common(n): by decreasing count, equal counts in order of
\* first occurrence
most_common(counted, n) ==
    LET sorted == SortByCount(counted)
    IN  SubSeq(sorted, 1, IF Len(sorted) < n THEN Len(sorted) ELSE n)

\* round(num / den, 4) in units of 1/10000, ties to the even neighbour
Round4(num, den) ==
    LET scaled == 10000 * num
        q == scaled \div den
        twice == 2 * (scaled % den)
    IN  IF twice < den THEN q
        ELSE IF twice > den THEN q + 1
        ELSE IF q % 2 = 0 THEN q ELSE q + 1

\* mutant: the ratio of the empty list is 0
quality_snapshot_empty_ratio_zero(events) ==
    LET with_country == SelectSeq(events, LAMBDA e : e.countryCode # "")
        fallback_count == Cardinality({ i \in 1..Len(events) : events[i].isFallback })
    IN  [disciplines |-> AsDict(Counter([i \in 1..Len(events) |-> events[i].discipline])),
         sources |-> AsDict(Counter([i \in 1..Len(events) |->
                        IF Truthy(events[i].source) THEN events[i].source[1] ELSE "unknown"])),
         countriesTop10 |-> most_common(Counter([i \in 1..Len(with_country) |->
                                                    with_country[i].countryCode]), 10),
         fallbackEvents |-> fallback_count,
         fallbackRatio |-> IF events # << >> THEN Round4(fallback_count, Len(events)) ELSE 0]

\* fallbackRatio is held in units of 1/10000
quality_snapshot(events) ==
    LET with_country == SelectSeq(events, LAMBDA e : e.countryCode # "")
        fallback_count == Cardinality({ i \in 1..Len(events) : events[i].isFallback })
    IN  [disciplines |-> AsDict(Counter([i \in 1..Len(events) |-> events[i].discipline])),
         sources |-> AsDict(Counter([i \in 1..Len(events) |->
                        IF Truthy(events[i].source) THEN events[i].source[1] ELSE "unknown"])),
         countriesTop10 |-> most_common(Counter([i \in 1..Len(with_country) |->
                                                    with_country[i].countryCode]), 10),
         fallbackEvents |-> fallback_count,
         fallbackRatio |-> IF events # << >> THEN Round4(fallback_count, Len(events)) ELSE 10000]

(***************************************************************************)
(* Validator: validate and main of validate_output.py.  A ratio is held    *)
(* as numerator and denominator, the clock as the day and whether it is    *)
(* exactly midnight, minRequiredDate as a day number, and the rounded      *)
(* ratios of the metrics in units of 1/10000.                              *)
(***************************************************************************)
Ratio(num, den) == [num |-> num, den |-> den]

\* a <= b for two ratios
AtMost(a, b) == a.num * b.den <= b.num * a.den

\* the names of the checks, in the order of the dict
CheckNames ==
    << "min_events", "duplicate_ids", "invalid_dates", "generic_url_ratio", "fallback_ratio",
       "min_disciplines", "min_triathlon_events", "future_horizon", "source_diversity" >>

\* the day number of a date
DayNumber(date) == Ordinal(date.year, date.month, date.day)

\* max(parsed_dates): the latest of the dates that parsed
LatestOf(parsed) ==
    LET valid == { i \in 1..Len(parsed) : parsed[i] # None }
        latest == CHOOSE i \in valid : \A j \in valid : DayNumber(parsed[j][1]) <= DayNumber(parsed[i][1])
    IN  parsed[latest][1]

\* lines 38-58 for the events of the file and their parsed dates: what is
\* counted, and max_date
Measured(events, parsed) ==
    [total |-> Len(events),
     duplicate_ids |-> Len(events) - Cardinality({ events[i].id : i \in 1..Len(events) }),
     invalid_dates |-> Cardinality({ i \in 1..Len(events) : parsed[i] = None }),
     generic_urls |-> Cardinality({ i \in 1..Len(events) : is_generic_url(events[i].registrationUrl) }),
     fallback_events |-> Cardinality({ i \in 1..Len(events) : events[i].isFallback }),
     triathlon_count |-> Cardinality({ i \in 1..Len(events) : events[i].discipline = "Triathlon" }),
     disciplines |-> Counter([i \in 1..Len(events) |-> events[i].discipline]),
     sources |-> Counter([i \in 1..Len(events) |-> events[i].source]),
     max_date |-> IF \A i \in 1..Len(events) : parsed[i] = None THEN None
                  ELSE Some(LatestOf(parsed))]

\* lines 56-94: the checks and the metrics from what was measured
ReportOf(m, limits, now) ==
    LET contributing_sources == Cardinality({ k \in 1..Len(m.sources) : m.sources[k].count >= 2 })
        min_required_date == now.day + limits.min_future_horizon_days
        generic_ratio == IF m.total # 0 THEN Ratio(m.generic_urls, m.total) ELSE Ratio(1, 1)
        fallback_ratio == IF m.total # 0 THEN Ratio(m.fallback_events, m.total) ELSE Ratio(1, 1)
    IN  [checks |->
            [min_events |-> m.total >= limits.min_events,
             duplicate_ids |-> m.duplicate_ids = 0,
             invalid_dates |-> m.invalid_dates = 0,
             generic_url_ratio |-> AtMost(generic_ratio, limits.max_generic_url_ratio),
             fallback_ratio |-> AtMost(fallback_ratio, limits.max_fallback_ratio),
             min_disciplines |-> Len(m.disciplines) >= limits.min_disciplines,
             min_triathlon_events |-> m.triathlon_count >= limits.min_triathlon_events,
             future_horizon |->
                /\ m.max_date # None
                /\ \/ DayNumber(m.max_date[1]) > min_required_date
                   \/ DayNumber(m.max_date[1]) = min_required_date /\ now.midnight,
             source_diversity |-> contributing_sources >= limits.min_contributing_sources],
         metrics |->
            [totalEvents |-> m.total,
             duplicateIds |-> m.duplicate_ids,
             invalidDates |-> m.invalid_dates,
             genericUrlCount |-> m.generic_urls,
             genericUrlRatio |-> Round4(generic_ratio.num, generic_ratio.den),
             fallbackEvents |-> m.fallback_events,
             fallbackRatio |-> Round4(fallback_ratio.num, fallback_ratio.den),
             triathlonEvents |-> m.triathlon_count,
             disciplines |-> AsDict(m.disciplines),
             sourceCounts |-> AsDict(m.sources),
             maxDate |-> IF m.max_date # None THEN Some(strftime_ymd(m.max_date[1])) ELSE None,
             minRequiredDate |-> min_required_date,
             contributingSources |-> contributing_sources]]

\* _parse_date: the date as a record, None for ValueError
parse_date(date_str) == strptime(date_str, DateFormats[1])

\* the body of validate up to the report, for the events of the file
validate_report(events, limits, now) ==
    ReportOf(Measured(events, [i \in 1..Len(events) |-> parse_date(events[i].date)]), limits, now)

\* mutant: the verdict leaves the horizon check out
VerdictHorizonUnchecked(made) ==
    [ok |-> \A k \in 1..Len(CheckNames) :
                CheckNames[k] # "future_horizon" => made.checks[CheckNames[k]],
     report |-> made]

\* ok = all(checks.values()); return ok, report
Verdict(made) ==
    [ok |-> \A k \in 1..Len(CheckNames) : made.checks[CheckNames[k]], report |-> made]

\* validate: the pair (ok, report)
validate(events, limits, now) == Verdict(validate_report(events, limits, now))

\* lines 137-149 of main: the exit code, the report written and the names of
\* the failing checks printed
Reported(made) ==
    [exit |-> IF made.ok THEN 0 ELSE 1,
     report |-> Some(made.report),
     failed |-> IF made.ok THEN << >>
                ELSE SelectSeq(CheckNames, LAMBDA name : ~made.report.checks[name])]

\* main of validate_output.py for the content of the events file, None when
\* the file does not exist
validate_main(file, limits, now) ==
    IF file = None
    THEN [exit |-> 1, report |-> None, failed |-> << >>]
    ELSE Reported(validate(file[1].events, limits, now))

\* the defaults of the command line
DefaultLimits ==
    [min_events |-> 80, min_disciplines |-> 3, min_triathlon_events |-> 5,
     max_fallback_ratio |-> Ratio(35, 100), max_generic_url_ratio |-> Ratio(8, 100),
     min_future_horizon_days |-> 120, min_contributing_sources |-> 2]

(***************************************************************************)
(* SourceRunner and the orchestration of main (main.py 33-46, 132-207).    *)
(* The outcome of a call is [kind |-> "return", value |-> v] or            *)
(* [kind |-> "raise", message |-> str(exc)] for an Exception.              *)
(***************************************************************************)
Returned(value) == [kind |-> "return", value |-> value]

Raised(message) == [kind |-> "raise", message |-> message]

SourceResult(name, events, ok, error) ==
    [name |-> name, events |-> events, ok |-> ok, error |-> error]

\* mutant: no try/except, the exception of fn goes through
source_runner_uncaught(name, fnOutcome) ==
    IF fnOutcome.kind = "return"
    THEN Returned(SourceResult(name, fnOutcome.value, TRUE, None))
    ELSE Raised(fnOutcome.message)

\* fnOutcome is the outcome of fn()
source_runner(name, fnOutcome) ==
    IF fnOutcome.kind = "return"
    THEN Returned(SourceResult(name, fnOutcome.value, TRUE, None))
    ELSE Returned(SourceResult(name, << >>, FALSE, Some(fnOutcome.message)))

\* the names of source_jobs, of which a run of the model uses the first NumSources
AllSourceNames ==
    << "RunSignup", "Ahotu/Running", "Ahotu/Marathon", "Ahotu/Trail", "UltraSignup", "Triathlon" >>

source_jobs == SubSeq(AllSourceNames, 1, NumSources)

RECURSIVE ConcatUntilFailure(_)
\* mutant: the concatenation stops at the first failed source
ConcatUntilFailure(source_results) ==
    IF source_results = << >> THEN << >>
    ELSE IF ~source_results[1].ok THEN << >>
    ELSE source_results[1].events \o ConcatUntilFailure(Tail(source_results))

RECURSIVE ConcatEvents(_)
\* [event for result in results for event in result.events]
ConcatEvents(source_results) ==
    IF source_results = << >> THEN << >>
    ELSE source_results[1].events \o ConcatEvents(Tail(source_results))

\* mutant: failed sources are left out of sourceStats
source_stats_ok_only(source_results) ==
    [n \in { source_results[i].name : i \in { j \in 1..Len(source_results) : source_results[j].ok } } |->
        LET r == source_results[CHOOSE i \in 1..Len(source_results) :
                     /\ source_results[i].name = n
                     /\ \A j \in (i + 1)..Len(source_results) : source_results[j].name # n]
        IN  [ok |-> r.ok, count |-> Len(r.events), error |-> r.error]]

\* the dict comprehension of sourceStats: the last result of a name wins
source_stats(source_results) ==
    [n \in { source_results[i].name : i \in 1..Len(source_results) } |->
        LET r == source_results[CHOOSE i \in 1..Len(source_results) :
                     /\ source_results[i].name = n
                     /\ \A j \in (i + 1)..Len(source_results) : source_results[j].name # n]
        IN  [ok |-> r.ok, count |-> Len(r.events), error |-> r.error]]

\* mutant: the two exit codes are exchanged
main_exit_code_exchanged(events) == IF Len(events) = 0 THEN 0 ELSE 1

\* the return value of main
main_exit_code(events) == IF Len(events) = 0 THEN 1 ELSE 0

(***************************************************************************)
(* Specification SpecIds: _ensure_unique_ids on its own, one loop          *)
(* iteration per step, over lists of events whose ids repeat and have the  *)
(* shape of suffixed ids.                                                  *)
(***************************************************************************)
IdEvent(id, discipline) == [id |-> id, discipline |-> discipline]

IdInputIds == {"city-race-2026", "city-race-2026-trail", "city-race-2026-2"}

IdInputEvents == { IdEvent(id, d) : id \in IdInputIds, d \in {"Running", "Trail"} }

IdsInit ==
    /\ pc = "ids"
    /\ today = 0
    /\ job = 0
    /\ invoked = << >>
    /\ results = << >>
    /\ all_events = << >>
    /\ deduped = << >>
    /\ given \in SeqsUpTo(IdInputEvents, MaxIdEvents)
    /\ final_events = given
    /\ seen = << >>
    /\ pos = 1
    /\ quality = None
    /\ output = None
    /\ exit_code = None
    /\ ret = None
    /\ writes = [i \in 1..Len(given) |-> 0]
    /\ report = None

\* one iteration of `for event in events`
EnsureUniqueIdsStep ==
    /\ pc = "ids"
    /\ pos <= Len(final_events)
    /\ LET r == AssignId(final_events[pos], seen)
       IN  /\ final_events' = [final_events EXCEPT ![pos].id = r.id]
           /\ seen' = r.seen
           /\ writes' = [writes EXCEPT ![pos] = IF r.branch = "keep" THEN @ ELSE @ + 1]
    /\ pos' = pos + 1
    /\ UNCHANGED <<pc, today, job, invoked, results, all_events, deduped, given,
                   quality, output, exit_code, ret, report>>

\* the loop is exhausted and the function returns
EnsureUniqueIdsReturn ==
    /\ pc = "ids"
    /\ pos > Len(final_events)
    /\ pc' = "ids_done"
    /\ UNCHANGED <<today, job, invoked, results, all_events, deduped, final_events,
                   given, seen, pos, quality, output, exit_code, ret, writes, report>>

IdsNext == EnsureUniqueIdsStep \/ EnsureUniqueIdsReturn

SpecIds == IdsInit /\ [][IdsNext]_vars

\* C1: after _ensure_unique_ids has processed a list, whatever the input ids
\* (repeated, or already shaped like '<base>-trail' or '<base>-2'), no two
\* events of the list share an id.
C1_UniqueIds == pc = "ids_done" => NoDuplicateIds(final_events)

\* a run that went through the discipline branch and the numeric branch on
\* input holding a repeated id and suffix-shaped ids
C1_Witness ==
    /\ pc = "ids_done"
    /\ Len(given) = 4
    /\ ~NoDuplicateIds(given)
    /\ \E i \in 1..4 : given[i].id = "city-race-2026-2"
    /\ \E i \in 1..4 : final_events[i].id = "city-race-2026-3"
    /\ \E i \in 1..4 : final_events[i].id = "city-race-2026-running"
    /\ final_events = ensure_unique_ids(given)

\* the discipline of an event in lower case, as the suffix spells it
SuffixOf(discipline) ==
    CASE discipline = "Running" -> "running"
      [] discipline = "Trail" -> "trail"
      [] discipline = "Triathlon" -> "triathlon"

\* C24: every iteration of _ensure_unique_ids, taken in list order, keeps the
\* id of its event when that id is unseen; otherwise gives it
\* '<base>-<lowercase discipline>' when that is unseen; and only otherwise
\* gives it '<base>-<n>' for the smallest n >= seen[base] + 1 with
\* '<base>-<n>' unseen, and records n as the counter of the base.  The id
\* given is recorded as seen, and no other event is touched.
C24_BranchOrder ==
    [][(pc = "ids" /\ pos <= Len(final_events)) =>
        LET base == final_events[pos].id
            candidate == base \o "-" \o SuffixOf(final_events[pos].discipline)
            numbered(n) == base \o "-" \o ToString(n)
        IN  /\ pos' = pos + 1
            /\ \A i \in 1..Len(final_events) : i # pos => final_events'[i] = final_events[i]
            /\ final_events'[pos].id \in DOMAIN seen'
            /\ IF base \notin DOMAIN seen
               THEN final_events'[pos].id = base
               ELSE IF candidate \notin DOMAIN seen
               THEN final_events'[pos].id = candidate
               ELSE \E n \in (seen[base] + 1)..(seen[base] + MaxIdEvents + 1) :
                        /\ final_events'[pos].id = numbered(n)
                        /\ numbered(n) \notin DOMAIN seen
                        /\ \A m \in (seen[base] + 1)..(n - 1) : numbered(m) \in DOMAIN seen
                        /\ seen'[base] = n
    ]_vars

\* a run with a kept id, a discipline suffix, and a numeric suffix that had
\* to step over 'city-race-2026-2'
C24_Witness ==
    /\ pc = "ids_done"
    /\ given = << IdEvent("city-race-2026", "Running"), IdEvent("city-race-2026-2", "Running"),
                  IdEvent("city-race-2026", "Running"), IdEvent("city-race-2026", "Running") >>
    /\ IdsOf(final_events) = << "city-race-2026", "city-race-2026-2",
                                "city-race-2026-running", "city-race-2026-3" >>
    /\ seen["city-race-2026"] = 3

\* the orders a list of n events can arrive in
Orders(n) == { q \in [1..n -> 1..n] : \A i, j \in 1..n : i # j => q[i] # q[j] }

\* the events that share an id have pairwise different disciplines
SharedIdsDifferInDiscipline(events) ==
    \A i, j \in 1..Len(events) :
        (i # j /\ events[i].id = events[j].id) => events[i].discipline # events[j].discipline

\* C26: when the events that share an id have pairwise different
\* disciplines, _ensure_unique_ids gives each event the same id in whatever
\* order the events of the list are processed.
C26_OrderIndependent ==
    (pc = "ids_done" /\ SharedIdsDifferInDiscipline(given)) =>
        \A q \in Orders(Len(given)) :
            LET reordered == [k \in 1..Len(given) |-> given[q[k]]]
            IN  \A k \in 1..Len(given) :
                    ensure_unique_ids(reordered)[k].id = final_events[q[k]].id

\* C29: an event whose input id differs from the input id of every other
\* event of the list keeps that id through _ensure_unique_ids, so that only
\* events whose input id is shared with another event are renamed.
C29_UniqueInputIdKept ==
    pc = "ids_done" =>
        \A i \in 1..Len(given) :
            (\A j \in 1..Len(given) : j # i => given[j].id # given[i].id)
                => final_events[i].id = given[i].id

\* the three events of the documented example, in order
CityRaceExample ==
    << IdEvent("city-race-2026", "Running"),
       IdEvent("city-race-2026", "Running"),
       IdEvent("city-race-2026", "Trail") >>

\* C2 as stated: base id 'city-race-2026' with disciplines Running, Running,
\* Trail yields 'city-race-2026', 'city-race-2026-2', 'city-race-2026-trail'.
C2_AsStated ==
    (pc = "ids_done" /\ given = CityRaceExample)
        => IdsOf(final_events) = << "city-race-2026", "city-race-2026-2", "city-race-2026-trail" >>

\* C2 amended: base id 'city-race-2026' with disciplines Running, Running,
\* Trail yields 'city-race-2026', 'city-race-2026-running',
\* 'city-race-2026-trail': the second event takes the discipline suffix,
\* which is still unseen when it is processed.
C2_Amended ==
    (pc = "ids_done" /\ given = CityRaceExample)
        => IdsOf(final_events) = << "city-race-2026", "city-race-2026-running", "city-race-2026-trail" >>

C2_Witness == pc = "ids_done" /\ given = CityRaceExample /\ Len(final_events) = 3
(***************************************************************************)
(* Specification SpecDedup: _deduplicate on its own, then once more on its *)
(* own output.  The input is either a pair of candidates for one race      *)
(* taken over every combination of the scored fields, or a list of up to   *)
(* MaxDedupEvents candidates with several keys and scores.                 *)
(***************************************************************************)
SpecificUrl == "https://runsignup.com/Race/CityRace"

GenericUrl == "https://runsignup.com/"

Description61 == "A point-to-point course along the river with six aid stations"

Description60 == "A point-to-point course along the river with six aid station"

\* every combination of the six scored fields, for one race under one spelling
ScoredVariants(name) ==
    { RaceEvent("city-race-20270314", name, "2027-03-14", "US", "Running", "10km",
                description, registrationUrl, price, registrationStatus, websiteUrl,
                Some("RunSignup"), isFallback) :
        description \in {Description60, Description61},
        registrationUrl \in {GenericUrl, SpecificUrl},
        price \in {None, Some(25)},
        registrationStatus \in {None, Some("Open")},
        websiteUrl \in {None, Some("https://cityrace.org")},
        isFallback \in BOOLEAN }

DedupPairs == { << a, b >> : a \in ScoredVariants("City Race"), b \in ScoredVariants("CITY-RACE!") }

\* score 10: specific link, long description, status, price, website, live
RichSpecific(name, date, countryCode, discipline) ==
    RaceEvent("city-race-20270314", name, date, countryCode, discipline, "10km",
              Description61, SpecificUrl, Some(25), Some("Open"),
              Some("https://cityrace.org"), Some("RunSignup"), FALSE)

\* score 4: specific link and nothing else, curated
BareSpecificFallback(name, date, countryCode, discipline) ==
    RaceEvent("city-race-20270314", name, date, countryCode, discipline, "10km",
              "", SpecificUrl, None, None, None, Some("RunSignup/curated"), TRUE)

\* score 6: everything but a specific link
RichGeneric(name, date, countryCode, discipline) ==
    RaceEvent("city-race-20270314", name, date, countryCode, discipline, "10km",
              Description61, GenericUrl, Some(25), Some("Open"),
              Some("https://cityrace.org"), Some("Ahotu/Running"), FALSE)

DedupCandidates ==
    UNION { { RichSpecific(n, "2027-03-14", "US", "Running"),
              BareSpecificFallback(n, "2027-03-14", "US", "Running"),
              RichGeneric(n, "2027-03-14", "US", "Running") } :
            n \in {"City Race", "CITY-RACE!"} }
    \cup { RichSpecific("City Race", "2027-03-15", "US", "Running"),
           RichSpecific("City Race", "2027-03-14", "CA", "Running"),
           RichSpecific("City Race", "2027-03-14", "US", "Trail") }

DedupInit ==
    /\ pc = "dedup"
    /\ today = 0
    /\ job = 0
    /\ invoked = << >>
    /\ results = << >>
    /\ given \in DedupPairs \cup SeqsUpTo(DedupCandidates, MaxDedupEvents)
    /\ all_events = given
    /\ deduped = << >>
    /\ final_events = << >>
    /\ seen = << >>
    /\ pos = 0
    /\ quality = None
    /\ output = None
    /\ exit_code = None
    /\ ret = None
    /\ writes = << >>
    /\ report = None

\* deduped = _deduplicate(all_events)
Deduplicate ==
    /\ pc = "dedup"
    /\ deduped' = deduplicate(all_events)
    /\ pc' = "dedup_done"
    /\ UNCHANGED <<today, job, invoked, results, all_events, final_events, given,
                   seen, pos, quality, output, exit_code, ret, writes, report>>

\* the output is fed to _deduplicate once more
DeduplicateAgain ==
    /\ pc = "dedup_done"
    /\ all_events' = deduped
    /\ deduped' = deduplicate(deduped)
    /\ pc' = "dedup_twice"
    /\ UNCHANGED <<today, job, invoked, results, final_events, given,
                   seen, pos, quality, output, exit_code, ret, writes, report>>

DedupNext == Deduplicate \/ DeduplicateAgain

SpecDedup == DedupInit /\ [][DedupNext]_vars

\* C3: of two candidates with the same dedup key, one with a generic and one
\* with a specific registrationUrl, _deduplicate retains the specific one,
\* for every combination of the other scored fields and either input order.
C3_SpecificRetained ==
    (/\ pc = "dedup_done"
     /\ Len(given) = 2
     /\ DedupKey(given[1]) = DedupKey(given[2])
     /\ is_generic_url(given[1].registrationUrl) # is_generic_url(given[2].registrationUrl))
        => /\ Len(deduped) = 1
           /\ ~is_generic_url(deduped[1].registrationUrl)

\* C4: _deduplicate(_deduplicate(L)) = _deduplicate(L), the same records in
\* the same order.
C4_Idempotent == pc = "dedup_twice" => deduped = all_events

\* a second pass over an output that is shorter than the original input,
\* holds several keys and has a replaced record in front
C4_Witness ==
    /\ pc = "dedup_twice"
    /\ Len(given) = 3
    /\ Len(all_events) = 2
    /\ all_events[1] = given[3]
    /\ all_events[2] = given[2]
    /\ deduped = all_events

\* the dedup keys of a list of events
KeysOf(events) == { DedupKey(events[i]) : i \in 1..Len(events) }

\* C12: the output of _deduplicate contains exactly one record for each dedup
\* key occurring in the input, that record is one of the input records with
\* that key, and its quality score is greater than or equal to the score of
\* every input record with the same key.
C12_OneBestPerKey ==
    pc = "dedup_done" =>
        /\ KeysOf(deduped) = KeysOf(given)
        /\ \A i, j \in 1..Len(deduped) : i # j => DedupKey(deduped[i]) # DedupKey(deduped[j])
        /\ \A i \in 1..Len(deduped) :
            /\ \E k \in 1..Len(given) : given[k] = deduped[i]
            /\ \A k \in 1..Len(given) :
                DedupKey(given[k]) = DedupKey(deduped[i])
                    => event_score(deduped[i]) >= event_score(given[k])

\* three candidates of two keys; the second candidate outscores the first of
\* its key and is the one retained
C12_Witness ==
    /\ pc = "dedup_done"
    /\ Len(given) = 3
    /\ DedupKey(given[1]) = DedupKey(given[2])
    /\ DedupKey(given[1]) # DedupKey(given[3])
    /\ event_score(given[2]) > event_score(given[1])
    /\ deduped = << given[2], given[3] >>

\* position of the first candidate with a key in a list of events
FirstWithKey(events, key) ==
    CHOOSE i \in 1..Len(events) :
        /\ DedupKey(events[i]) = key
        /\ \A j \in 1..(i - 1) : DedupKey(events[j]) # key

\* C13: the records in the output of _deduplicate are ordered by the position
\* at which their key first occurred in the input, also when the retained
\* record for a key is a later, higher-scoring occurrence that replaced the
\* first one.
C13_FirstSeenOrder ==
    pc = "dedup_done" =>
        \A i, j \in 1..Len(deduped) :
            i < j => FirstWithKey(given, DedupKey(deduped[i])) < FirstWithKey(given, DedupKey(deduped[j]))

\* the last candidate replaced the first one and stands in front of the
\* candidate of the other key, which came before it
C13_Witness ==
    /\ pc = "dedup_done"
    /\ Len(given) = 3
    /\ DedupKey(given[1]) = DedupKey(given[3])
    /\ DedupKey(given[1]) # DedupKey(given[2])
    /\ event_score(given[3]) > event_score(given[1])
    /\ deduped = << given[3], given[2] >>

\* C27: for every key, _deduplicate retains the first of the input records
\* that have the highest score among the records with that key, so that
\* among candidates tied at the highest score the earliest one stays, a
\* later candidate taking the place of the retained one only with a
\* strictly greater score.
C27_FirstOfTheBest ==
    pc = "dedup_done" =>
        \A i \in 1..Len(deduped) :
            \E k \in 1..Len(given) :
                /\ deduped[i] = given[k]
                /\ \A j \in 1..Len(given) :
                    DedupKey(given[j]) = DedupKey(given[k]) =>
                        /\ event_score(given[j]) <= event_score(given[k])
                        /\ j < k => event_score(given[j]) < event_score(given[k])

\* a lower-scored candidate, then two different candidates of the same key
\* tied at the highest score: the first of the two is retained
C27_Witness ==
    /\ pc = "dedup_done"
    /\ Len(given) = 3
    /\ DedupKey(given[1]) = DedupKey(given[2])
    /\ DedupKey(given[2]) = DedupKey(given[3])
    /\ event_score(given[1]) < event_score(given[2])
    /\ event_score(given[2]) = event_score(given[3])
    /\ given[2] # given[3]
    /\ deduped = << given[2] >>

(***************************************************************************)
(* Specification SpecFilter: _final_filter on its own, over lists of       *)
(* events that sit on and around each acceptance boundary.                 *)
(***************************************************************************)
\* the day of the run: 2026-11-06
RunDay == Ordinal(2026, 11, 6)

FilterEvent(name, date, registrationUrl) ==
    RaceEvent("city-race", name, date, "US", "Running", "10km", "",
              registrationUrl, None, None, None, Some("RunSignup"), FALSE)

\* events that pass the three checks: an ordinary one, the two ends of the
\* date window, and a name that only contains a noise keyword inside a word
AcceptableEvents ==
    { FilterEvent("City Race", "2027-03-14", SpecificUrl),
      FilterEvent("City Race", "2026-11-05", SpecificUrl),
      FilterEvent("City Race", "2028-11-19", SpecificUrl),
      FilterEvent("Campus Run", "2027-03-14", SpecificUrl) }

\* events that fail exactly one check
RejectedEvents ==
    { FilterEvent("City Race", "2026-11-04", SpecificUrl),
      FilterEvent("City Race", "2028-11-20", SpecificUrl),
      FilterEvent("City Race", "2027-02-30", SpecificUrl),
      FilterEvent("City Race", "", SpecificUrl),
      FilterEvent("City Race", "2027-03-14", GenericUrl),
      FilterEvent("City Race", "2027-03-14", ""),
      FilterEvent("City Race Volunteers", "2027-03-14", SpecificUrl) }

FilterInit ==
    /\ pc = "filter"
    /\ today = RunDay
    /\ job = 0
    /\ invoked = << >>
    /\ results = << >>
    /\ all_events = << >>
    /\ given \in SeqsUpTo(AcceptableEvents \cup RejectedEvents, MaxFilterEvents)
    /\ deduped = given
    /\ final_events = << >>
    /\ seen = << >>
    /\ pos = 0
    /\ quality = None
    /\ output = None
    /\ exit_code = None
    /\ ret = None
    /\ writes = << >>
    /\ report = None

\* final_events = _final_filter(deduped)
FinalFilter ==
    /\ pc = "filter"
    /\ final_events' = final_filter(deduped)
    /\ pc' = "filter_done"
    /\ UNCHANGED <<today, job, invoked, results, all_events, deduped, given,
                   seen, pos, quality, output, exit_code, ret, writes, report>>

FilterNext == FinalFilter

SpecFilter == FilterInit /\ [][FilterNext]_vars

\* number of occurrences of a record in a list
Count(events, r) == Cardinality({ i \in 1..Len(events) : events[i] = r })

Records(events) == { events[i] : i \in 1..Len(events) }

\* the three acceptance checks of section 4.4
PassesAllChecks(event) ==
    /\ is_reasonable_future_date(event.date, 24)
    /\ event.registrationUrl # ""
    /\ ~is_generic_url(event.registrationUrl)
    /\ ~is_noise_event(event.name, event.distance, event.description)

\* C10: the output of _final_filter holds exactly the input records that pass
\* the date check (maxMonths = 24), the registrationUrl check and the noise
\* check: none that fails is kept, none that passes is dropped, none is added
\* or duplicated.
C10_ExactlyAcceptable ==
    pc = "filter_done" =>
        \A r \in Records(given) \cup Records(final_events) :
            /\ Count(final_events, r) = (IF PassesAllChecks(r) THEN Count(given, r) ELSE 0)
            /\ PassesAllChecks(r) <=> r \in AcceptableEvents

\* a filtered list from which a stale event and a noise event were dropped and
\* in which the event of yesterday and a repeated record were kept
C10_Witness ==
    /\ pc = "filter_done"
    /\ Len(given) = 3
    /\ given[1] = given[3]
    /\ given[1].date = "2026-11-05"
    /\ given[2].name = "City Race Volunteers"
    /\ final_events = << given[1], given[3] >>

\* the calendar day of the date of a surviving record
DayOf(event) == strptime_ymd(event.date)[1]

\* C11: the output of _final_filter is in ascending date order, and any two
\* surviving records with equal dates appear in the same relative order as in
\* the input.
C11_SortedStable ==
    pc = "filter_done" =>
        /\ \A i, j \in 1..Len(final_events) :
            i < j => DayOf(final_events[i]) <= DayOf(final_events[j])
        /\ \A d \in { final_events[i].date : i \in 1..Len(final_events) } :
            SelectSeq(final_events, LAMBDA e : e.date = d)
                = SelectSeq(given, LAMBDA e : e.date = d /\ e \in Records(final_events))

\* the last input record has the earliest date and moves to the front, the two
\* different records of one date stay in input order
C11_Witness ==
    /\ pc = "filter_done"
    /\ Len(given) = 3
    /\ given[1].date = given[2].date
    /\ given[1] # given[2]
    /\ final_events = << given[3], given[1], given[2] >>
    /\ DayOf(given[3]) < DayOf(given[1])
(***************************************************************************)
(* Specification Spec: a run of main.  Every fetch operation either        *)
(* returns some of the records of a catalog (in catalog order) or raises.  *)
(***************************************************************************)
\* a curated record with a specific link and nothing else (score 4)
CityRaceCurated ==
    RaceEvent("city-race-20270314", "City Race", "2027-03-14", "US", "Running", "10km",
              "", SpecificUrl, None, None, None, Some("RunSignup/curated"), TRUE)

\* the same race (same key) with everything but a specific link (score 6)
CityRaceGeneric ==
    RaceEvent("city-race-20270314", "CITY RACE", "2027-03-14", "US", "Running", "10km",
              Description61, GenericUrl, Some(25), Some("Open"),
              Some("https://cityrace.org"), Some("Ahotu/Running"), FALSE)

\* another race of the same day with the same id and another discipline
CityRaceTrail ==
    RaceEvent("city-race-20270314", "City Race", "2027-03-14", "US", "Trail", "Ultra Trail",
              Description61, "https://ultrasignup.com/register.aspx?eid=123", None, Some("Open"),
              None, Some("UltraSignup"), FALSE)

\* an acceptable race that carries no source
LakeRun ==
    RaceEvent("lake-run-20270501", "Lake Run", "2027-05-01", "XX", "Running", "Marathon",
              "", "https://lakerun.org/register", Some(40), None, None, None, FALSE)

Catalog == << CityRaceCurated, CityRaceTrail, LakeRun, CityRaceGeneric >>

\* the records of the catalog at the positions of a set, in catalog order
Picked(positions) == SelectSeq(Catalog, LAMBDA e : \E i \in positions : Catalog[i] = e)

FetchErrors == {"connection timed out"}

FetchOutcomes ==
    { Returned(Picked(positions)) : positions \in SUBSET (1..Len(Catalog)) }
    \cup { Raised(message) : message \in FetchErrors }

Init ==
    /\ pc = "fetch"
    /\ today = RunDay
    /\ job = 1
    /\ invoked = << >>
    /\ results = << >>
    /\ all_events = << >>
    /\ deduped = << >>
    /\ final_events = << >>
    /\ given = << >>
    /\ seen = << >>
    /\ pos = 0
    /\ quality = None
    /\ output = None
    /\ exit_code = None
    /\ ret = None
    /\ writes = << >>
    /\ report = None

\* one iteration of `for name, fn in source_jobs`; an exception that leaves
\* _source_runner ends main
RunSourceJob ==
    /\ pc = "fetch"
    /\ job <= Len(source_jobs)
    /\ \E fnOutcome \in FetchOutcomes :
        LET call == source_runner(source_jobs[job], fnOutcome)
        IN  /\ invoked' = Append(invoked, [name |-> source_jobs[job], outcome |-> fnOutcome])
            /\ IF call.kind = "return"
               THEN /\ results' = Append(results, call.value)
                    /\ job' = job + 1
                    /\ pc' = pc
               ELSE /\ pc' = "crashed"
                    /\ UNCHANGED <<results, job>>
    /\ UNCHANGED <<today, all_events, deduped, final_events, given, seen, pos,
                   quality, output, exit_code, ret, writes, report>>

\* all_events = [event for result in results for event in result.events]
Concatenate ==
    /\ pc = "fetch"
    /\ job > Len(source_jobs)
    /\ all_events' = ConcatEvents(results)
    /\ pc' = "dedup"
    /\ UNCHANGED <<today, job, invoked, results, deduped, final_events, given, seen,
                   pos, quality, output, exit_code, ret, writes, report>>

\* deduped = _deduplicate(all_events)
DedupStage ==
    /\ pc = "dedup"
    /\ deduped' = deduplicate(all_events)
    /\ pc' = "filter"
    /\ UNCHANGED <<today, job, invoked, results, all_events, final_events, given,
                   seen, pos, quality, output, exit_code, ret, writes, report>>

\* final_events = _final_filter(deduped)
FilterStage ==
    /\ pc = "filter"
    /\ final_events' = final_filter(deduped)
    /\ given' = final_filter(deduped)
    /\ pc' = "ids"
    /\ UNCHANGED <<today, job, invoked, results, all_events, deduped, seen, pos,
                   quality, output, exit_code, ret, writes, report>>

\* _ensure_unique_ids(final_events)
IdStage ==
    /\ pc = "ids"
    /\ final_events' = ensure_unique_ids(final_events)
    /\ writes' = id_writes(final_events)
    /\ pc' = "quality"
    /\ UNCHANGED <<today, job, invoked, results, all_events, deduped, given, seen,
                   pos, quality, output, exit_code, ret, report>>

\* quality = _quality_snapshot(final_events)
QualityStage ==
    /\ pc = "quality"
    /\ quality' = Some(quality_snapshot(final_events))
    /\ pc' = "write"
    /\ UNCHANGED <<today, job, invoked, results, all_events, deduped, final_events,
                   given, seen, pos, output, exit_code, ret, writes, report>>

\* the events artifact (lastUpdated and publicUrl left out)
WriteOutput ==
    /\ pc = "write"
    /\ output' = Some([totalEvents |-> Len(final_events),
                       sources |-> source_jobs,
                       sourceStats |-> source_stats(results),
                       quality |-> quality[1],
                       events |-> final_events])
    /\ pc' = "return"
    /\ UNCHANGED <<today, job, invoked, results, all_events, deduped, final_events,
                   given, seen, pos, quality, exit_code, ret, writes, report>>

\* return 1 if the final list is empty, 0 otherwise
Exit ==
    /\ pc = "return"
    /\ exit_code' = Some(main_exit_code(final_events))
    /\ pc' = "done"
    /\ UNCHANGED <<today, job, invoked, results, all_events, deduped, final_events,
                   given, seen, pos, quality, output, ret, writes, report>>

\* the validator command run with its default limits on the file written,
\* on the day of the run, at midnight or later in the day
ValidateOutput ==
    /\ pc = "done"
    /\ output # None
    /\ \E midnight \in BOOLEAN :
        LET done == validate_main(Some([events |-> output[1].events]), DefaultLimits,
                                  [day |-> today, midnight |-> midnight])
        IN  /\ report' = done.report
            /\ ret' = Some([exit |-> done.exit, failed |-> done.failed])
    /\ pc' = "validated"
    /\ UNCHANGED <<today, job, invoked, results, all_events, deduped, final_events,
                   given, seen, pos, quality, output, exit_code, writes>>

Next ==
    \/ RunSourceJob
    \/ Concatenate
    \/ DedupStage
    \/ FilterStage
    \/ IdStage
    \/ QualityStage
    \/ WriteOutput
    \/ Exit
    \/ ValidateOutput

Spec == Init /\ [][Next]_vars

\* the names of the jobs called so far
InvokedNames == [i \in 1..Len(invoked) |-> invoked[i].name]

RECURSIVE ReturnedEvents(_)
\* the lists the fetch operations returned, one after another; a fetch
\* operation that raised gives nothing
ReturnedEvents(calls) ==
    IF calls = << >> THEN << >>
    ELSE (IF calls[1].outcome.kind = "return" THEN calls[1].outcome.value ELSE << >>)
         \o ReturnedEvents(Tail(calls))

\* C6: _source_runner never lets a failure of the fetch operation escape: a
\* fetch that raises gives {ok: false, events: [], error: message}, a fetch
\* that returns gives {ok: true, events: the returned list, error: null}.
C6_FailureWrapped ==
    /\ pc # "crashed"
    /\ Len(results) = Len(invoked)
    /\ \A i \in 1..Len(results) :
        /\ results[i].name = invoked[i].name
        /\ IF invoked[i].outcome.kind = "raise"
           THEN /\ results[i].ok = FALSE
                /\ results[i].events = << >>
                /\ results[i].error = Some(invoked[i].outcome.message)
           ELSE /\ results[i].ok = TRUE
                /\ results[i].events = invoked[i].outcome.value
                /\ results[i].error = None

\* a failed fetch followed by a fetch that returned two events
C6_Witness ==
    /\ Len(results) = 2
    /\ invoked[1].outcome.kind = "raise"
    /\ ~results[1].ok
    /\ invoked[2].outcome.kind = "return"
    /\ Len(results[2].events) = 2

\* C7: in every run each configured source is invoked exactly once, in
\* configured order, whichever earlier sources failed; a failed source is not
\* retried and contributes no event to the concatenated list; and the run is
\* not ended by the failure: it goes on through deduplication, filtering and
\* id assignment to its output.
C7_EverySourceRunsOnce ==
    /\ pc # "crashed"
    /\ Len(invoked) <= Len(source_jobs)
    /\ InvokedNames = SubSeq(source_jobs, 1, Len(invoked))
    /\ pc = "fetch" => Len(invoked) = job - 1
    /\ pc # "fetch" =>
        /\ InvokedNames = source_jobs
        /\ all_events = ReturnedEvents(invoked)
    /\ pc = "done" =>
        /\ output # None
        /\ output[1].events = final_events
        /\ exit_code # None

\* a finished run whose first source failed and whose last source returned events
C7_Witness ==
    /\ pc = "done"
    /\ invoked[1].outcome.kind = "raise"
    /\ invoked[Len(invoked)].outcome.kind = "return"
    /\ Len(invoked) = Len(source_jobs)
    /\ all_events # << >>
    /\ Len(output[1].events) > 0

\* call k returned three events that each pass FinalFilter and have pairwise
\* distinct dedup keys, and every other call raised
OneGoodSourceRestFailed(k) ==
    /\ Len(invoked) >= 2
    /\ invoked[k].outcome.kind = "return"
    /\ Len(invoked[k].outcome.value) = 3
    /\ \A i \in 1..3 : PassesAllChecks(invoked[k].outcome.value[i])
    /\ \A i, j \in 1..3 :
        i # j => DedupKey(invoked[k].outcome.value[i]) # DedupKey(invoked[k].outcome.value[j])
    /\ \A j \in 1..Len(invoked) : j # k => invoked[j].outcome.kind = "raise"

\* C8: a run with one source that succeeds with 3 events that pass
\* FinalFilter and have pairwise distinct dedup keys, and the other source(s)
\* failing with a message, produces sourceStats with ok=true/count=3/error=null
\* for the first and ok=false/count=0/error=message for the others,
\* totalEvents = 3 and a non-empty quality.sources map.
C8_EndToEnd ==
    pc = "done" =>
        \A k \in 1..Len(invoked) :
            OneGoodSourceRestFailed(k) =>
                /\ DOMAIN output[1].sourceStats = { source_jobs[i] : i \in 1..Len(source_jobs) }
                /\ output[1].sourceStats[invoked[k].name] = [ok |-> TRUE, count |-> 3, error |-> None]
                /\ \A j \in 1..Len(invoked) :
                    j # k => output[1].sourceStats[invoked[j].name]
                                = [ok |-> FALSE, count |-> 0, error |-> Some(invoked[j].outcome.message)]
                /\ output[1].totalEvents = 3
                /\ DOMAIN output[1].quality.sources # {}

C8_Witness ==
    /\ pc = "done"
    /\ OneGoodSourceRestFailed(Len(invoked))
    /\ Len(output[1].events) = 3

AllSourcesFailed == \A i \in 1..Len(invoked) : invoked[i].outcome.kind = "raise"

\* C9: the exit code of main is 1 exactly when the final filtered list is
\* empty (as it is when every source failed) and 0 otherwise.
C9_ExitCode ==
    pc = "done" =>
        /\ exit_code \in {Some(0), Some(1)}
        /\ exit_code = Some(1) <=> final_events = << >>
        /\ AllSourcesFailed => exit_code = Some(1)

\* a finished run in which every source failed
C9_Witness == pc = "done" /\ AllSourcesFailed /\ exit_code = Some(1) /\ Len(invoked) = Len(source_jobs)
\* the stages after IdAssigner
AfterIdStage == pc \in {"quality", "write", "return", "done", "validated"}

\* C25 as stated: in a pipeline run IdAssigner writes the id of every event
\* of the final list exactly once, and leaves the length and order of the
\* list and every other field as they were.
C25_AsStated ==
    AfterIdStage =>
        /\ Len(final_events) = Len(given)
        /\ \A i \in 1..Len(final_events) :
            /\ writes[i] = 1
            /\ [final_events[i] EXCEPT !.id = given[i].id] = given[i]

\* C25 amended: in a pipeline run IdAssigner writes the id of every event of
\* the final list at most once, namely exactly when it gives the event
\* another id, and not at all when the id of the event is unseen on its
\* turn (the first event of the list among them); it leaves the length and
\* order of the list and every other field as they were.
C25_Amended ==
    AfterIdStage =>
        /\ Len(final_events) = Len(given)
        /\ Len(writes) = Len(given)
        /\ \A i \in 1..Len(final_events) :
            /\ writes[i] \in {0, 1}
            /\ writes[i] = 1 <=> final_events[i].id # given[i].id
            /\ (\A j \in 1..(i - 1) : final_events[j].id # given[i].id) => writes[i] = 0
            /\ [final_events[i] EXCEPT !.id = given[i].id] = given[i]

\* a run whose final list holds an event that kept its id without a write
\* and an event that was given another id by one write
C25_Witness ==
    /\ pc = "done"
    /\ \E i, j \in 1..Len(final_events) :
        /\ writes[i] = 0 /\ final_events[i].id = given[i].id
        /\ writes[j] = 1 /\ final_events[j].id # given[j].id

\* C28: whenever the concatenated candidate list of a run holds a record
\* that passes the three checks of _final_filter, the final output of the
\* run holds a record with the same dedup key.
C28_NoAcceptableEventLost ==
    (pc = "done" /\ output # None) =>
        \A i \in 1..Len(all_events) :
            PassesAllChecks(all_events[i]) =>
                \E j \in 1..Len(output[1].events) :
                    DedupKey(output[1].events[j]) = DedupKey(all_events[i])

\* C30: for every events file a pipeline run writes, whatever the sources
\* returned and whichever of them failed, the validator's duplicate_ids check
\* and invalid_dates check pass and its count of generic registration links
\* is 0: no two events of the file share an id, every date parses as
\* YYYY-MM-DD, and no registrationUrl is generic for is_generic_url.
C30_ArtifactPassesIdDateUrlChecks ==
    pc = "validated" =>
        /\ report # None
        /\ report[1].checks.duplicate_ids
        /\ report[1].checks.invalid_dates
        /\ report[1].metrics.duplicateIds = 0
        /\ report[1].metrics.invalidDates = 0
        /\ report[1].metrics.genericUrlCount = 0
        /\ NoDuplicateIds(output[1].events)
        /\ \A i \in 1..Len(output[1].events) :
            /\ strptime_ymd(output[1].events[i].date) # None
            /\ ~is_generic_url(output[1].events[i].registrationUrl)

\* a validated file of three events, two of which came with the same id,
\* from a run in which one source failed
C30_Witness ==
    /\ pc = "validated"
    /\ Len(output[1].events) = 3
    /\ ~NoDuplicateIds(given)
    /\ \E i \in 1..Len(invoked) : invoked[i].outcome.kind = "raise"
    /\ report[1].checks.duplicate_ids
    /\ report[1].metrics.totalEvents = Len(output[1].events)
    /\ ret[1].exit = 1

(***************************************************************************)
(* Specification SpecScore: _event_score on one record, over every         *)
(* combination of values of the six fields it reads.                       *)
(***************************************************************************)
\* registration links that point to one event
SpecificUrls == {SpecificUrl, "https://ultrasignup.com/register.aspx?eid=123"}

\* registration links that point to a landing or listing page
GenericUrls == {GenericUrl, "https://ultrasignup.com/register.aspx"}

ScoreInputs ==
    { RaceEvent("city-race-20270314", "City Race", "2027-03-14", "US", "Running", "10km",
                description, registrationUrl, price, registrationStatus, websiteUrl,
                Some("RunSignup"), isFallback) :
        description \in {"", Description60, Description61},
        registrationUrl \in {""} \cup GenericUrls \cup SpecificUrls,
        price \in {None, Some(0), Some(25)},
        registrationStatus \in {None, Some("Open"), Some("Sold Out")},
        websiteUrl \in {None, Some(""), Some("https://cityrace.org")},
        isFallback \in BOOLEAN }

ScoreInit ==
    /\ pc = "score"
    /\ today = 0
    /\ job = 0
    /\ invoked = << >>
    /\ results = << >>
    /\ all_events = << >>
    /\ deduped = << >>
    /\ final_events = << >>
    /\ given \in ScoreInputs
    /\ seen = << >>
    /\ pos = 0
    /\ quality = None
    /\ output = None
    /\ exit_code = None
    /\ ret = None
    /\ writes = << >>
    /\ report = None

\* ret = _event_score(given)
EventScore ==
    /\ pc = "score"
    /\ ret' = Some(event_score(given))
    /\ pc' = "score_done"
    /\ UNCHANGED <<today, job, invoked, results, all_events, deduped, final_events,
                   given, seen, pos, quality, output, exit_code, writes, report>>

ScoreNext == EventScore

SpecScore == ScoreInit /\ [][ScoreNext]_vars

Points(condition, points) == IF condition THEN points ELSE 0

\* C14: the quality score of a record is the sum of 4 if registrationUrl is
\* present and not generic, 1 if description is longer than 60 characters,
\* 1 if registrationStatus is set, 1 if price is set (a price of 0 is a
\* price), 1 if websiteUrl is set (an empty string is no url) and 2 if
\* isFallback is false; so it is always between 0 and 10.
C14_ScoreIsSum ==
    pc = "score_done" =>
        /\ ret = Some(Points(given.registrationUrl \in SpecificUrls, 4)
                      + Points(given.description = Description61, 1)
                      + Points(given.registrationStatus \in {Some("Open"), Some("Sold Out")}, 1)
                      + Points(given.price \in {Some(0), Some(25)}, 1)
                      + Points(given.websiteUrl = Some("https://cityrace.org"), 1)
                      + Points(given.isFallback = FALSE, 2))
        /\ ret[1] \in 0..10

\* a live record with a free entry and every scored field present scores 10
C14_Witness ==
    /\ pc = "score_done"
    /\ given.registrationUrl = "https://ultrasignup.com/register.aspx?eid=123"
    /\ given.price = Some(0)
    /\ given.registrationStatus = Some("Sold Out")
    /\ ret = Some(10)
(***************************************************************************)
(* Specification SpecQuality: _quality_snapshot on its own, over every     *)
(* list of up to MaxQualityEvents events and over longer lists that hold   *)
(* up to MaxCountries different country codes.                             *)
(***************************************************************************)
QualityEvent(discipline, countryCode, source, isFallback) ==
    RaceEvent("city-race-20270314", "City Race", "2027-03-14", countryCode, discipline,
              "10km", "", SpecificUrl, None, None, None, source, isFallback)

QualityEvents ==
    { QualityEvent(discipline, countryCode, source, isFallback) :
        discipline \in {"Running", "Trail"},
        countryCode \in {"US", ""},
        source \in {None, Some("RunSignup")},
        isFallback \in BOOLEAN }

CountryCodes ==
    << "US", "FR", "MA", "GB", "DE", "ES", "IT", "CA", "JP", "AU", "BR", "ZA", "KE", "NZ" >>

SourceCycle == << Some("RunSignup"), None, Some("Ahotu/Trail") >>

DisciplineCycle == << "Running", "Trail", "Triathlon" >>

\* k + 2 events over k country codes, the last code three times; the first
\* f events are fallback records
LongList(k, f) ==
    [i \in 1..(k + 2) |->
        QualityEvent(DisciplineCycle[(i % 3) + 1],
                     CountryCodes[IF i < k THEN i ELSE k],
                     SourceCycle[(i % 3) + 1],
                     i <= f)]

QualityInputs ==
    SeqsUpTo(QualityEvents, MaxQualityEvents)
    \cup { LongList(k, f) : k \in 1..MaxCountries, f \in 0..(MaxCountries + 2) }

QualityInit ==
    /\ pc = "snapshot"
    /\ today = 0
    /\ job = 0
    /\ invoked = << >>
    /\ results = << >>
    /\ all_events = << >>
    /\ deduped = << >>
    /\ given \in QualityInputs
    /\ final_events = given
    /\ seen = << >>
    /\ pos = 0
    /\ quality = None
    /\ output = None
    /\ exit_code = None
    /\ ret = None
    /\ writes = << >>
    /\ report = None

\* quality = _quality_snapshot(final_events)
QualitySnapshot ==
    /\ pc = "snapshot"
    /\ quality' = Some(quality_snapshot(final_events))
    /\ pc' = "snapshot_done"
    /\ UNCHANGED <<today, job, invoked, results, all_events, deduped, final_events,
                   given, seen, pos, output, exit_code, ret, writes, report>>

QualityNext == QualitySnapshot

SpecQuality == QualityInit /\ [][QualityNext]_vars

RECURSIVE SumOf(_)
\* the sum of the values of a mapping
SumOf(counts) ==
    IF DOMAIN counts = {} THEN 0
    ELSE LET k == CHOOSE x \in DOMAIN counts : TRUE
         IN  counts[k] + SumOf([x \in DOMAIN counts \ {k} |-> counts[x]])

\* number of events of a list that satisfy a condition
HowMany(events, Cond(_)) == Cardinality({ i \in 1..Len(events) : Cond(events[i]) })

HasNoSource(event) == event.source = None \/ event.source = Some("")

\* C15: the per-discipline counts of _quality_snapshot sum to the number of
\* events; its per-source counts sum to the number of events, the events
\* without a source being counted under 'unknown'; fallbackEvents is the
\* number of events with isFallback true; countriesTop10 has at most 10
\* entries; and the event list is left unchanged.
C15_SnapshotCounts ==
    pc = "snapshot_done" =>
        /\ SumOf(quality[1].disciplines) = Len(given)
        /\ \A d \in DOMAIN quality[1].disciplines :
            quality[1].disciplines[d] = HowMany(given, LAMBDA e : e.discipline = d)
        /\ SumOf(quality[1].sources) = Len(given)
        /\ ("unknown" \in DOMAIN quality[1].sources) = (HowMany(given, HasNoSource) > 0)
        /\ \A n \in DOMAIN quality[1].sources :
            quality[1].sources[n] = IF n = "unknown" THEN HowMany(given, HasNoSource)
                                    ELSE HowMany(given, LAMBDA e : e.source = Some(n))
        /\ quality[1].fallbackEvents = HowMany(given, LAMBDA e : e.isFallback)
        /\ Len(quality[1].countriesTop10) <= 10
        /\ final_events = given

\* a list with 12 country codes, events without a source and fallback events
C15_Witness ==
    /\ pc = "snapshot_done"
    /\ Cardinality({ given[i].countryCode : i \in 1..Len(given) }) = 12
    /\ Len(quality[1].countriesTop10) = 10
    /\ quality[1].sources["unknown"] > 1
    /\ quality[1].fallbackEvents = 5

\* C16 as stated: fallbackRatio is 1.0 for the empty event set and otherwise
\* fallbackCount/total.
C16_AsStated ==
    pc = "snapshot_done" =>
        IF given = << >> THEN quality[1].fallbackRatio = 10000
        ELSE quality[1].fallbackRatio * Len(given) = 10000 * HowMany(given, LAMBDA e : e.isFallback)

\* the distance of a ratio held in units of 1/10000 from count/total, in units
\* of 1/(10000 * total)
RatioError(ratio, count, total) ==
    IF ratio * total >= 10000 * count THEN ratio * total - 10000 * count
    ELSE 10000 * count - ratio * total

\* C16 amended: fallbackRatio is 1.0 for the empty event set and otherwise
\* fallbackCount/total rounded to 4 decimal places (1 of 3 gives 0.3333), so
\* that a non-empty set with no fallback events has ratio 0 and a set of only
\* fallback events has ratio 1.
C16_Amended ==
    pc = "snapshot_done" =>
        LET count == HowMany(given, LAMBDA e : e.isFallback)
            ratio == quality[1].fallbackRatio
        IN  IF given = << >> THEN ratio = 10000
            ELSE /\ ratio \in 0..10000
                 /\ 2 * RatioError(ratio, count, Len(given)) <= Len(given)
                 /\ count = 0 => ratio = 0
                 /\ count = Len(given) => ratio = 10000

\* one fallback event of three: the ratio is 0.3333
C16_Witness ==
    /\ pc = "snapshot_done"
    /\ Len(given) = 3
    /\ quality[1].fallbackEvents = 1
    /\ quality[1].fallbackRatio = 3333
(***************************************************************************)
(* Specification SpecGenericUrl: is_generic_url on one link, put together  *)
(* from a scheme, a domain, a path, a query and a fragment.                *)
(***************************************************************************)
\* what a web link starts with: a scheme or, scheme-relative, two slashes
WebSchemes == {"https://", "http://", "//"}

UrlSchemes == WebSchemes \cup {"ftp://", ""}

\* the domains the rules of is_generic_url name, in several spellings
BlocklistedDomains ==
    {"www.google.com", "ultrasignup.com", "www.ultrasignup.com", "UltraSignup.com",
     "itra.run", "www.itra.run", "example.com", "www.example.com"}

OtherDomains == {"runsignup.com", "RunSignup.com", "lakerun.org"}

UrlPaths == {"", "/", "/register.aspx", "/search", "/Race/CityRace"}

UrlQueries == {"", "?eid=123", "?q=trail+run"}

UrlFragments == {"", "#top"}

UrlParts ==
    [scheme : UrlSchemes, domain : BlocklistedDomains \cup OtherDomains, path : UrlPaths,
     query : UrlQueries, fragment : UrlFragments]

\* the link as it is written
UrlText(parts) == parts.scheme \o parts.domain \o parts.path \o parts.query \o parts.fragment

GenericUrlInit ==
    /\ pc = "generic"
    /\ today = 0
    /\ job = 0
    /\ invoked = << >>
    /\ results = << >>
    /\ all_events = << >>
    /\ deduped = << >>
    /\ final_events = << >>
    /\ given \in UrlParts
    /\ seen = << >>
    /\ pos = 0
    /\ quality = None
    /\ output = None
    /\ exit_code = None
    /\ ret = None
    /\ writes = << >>
    /\ report = None

\* ret = is_generic_url(url)
IsGenericUrl ==
    /\ pc = "generic"
    /\ ret' = Some(is_generic_url(UrlText(given)))
    /\ pc' = "generic_done"
    /\ UNCHANGED <<today, job, invoked, results, all_events, deduped, final_events,
                   given, seen, pos, quality, output, exit_code, writes, report>>

GenericUrlNext == IsGenericUrl

SpecGenericUrl == GenericUrlInit /\ [][GenericUrlNext]_vars

\* nothing but slashes behind the domain
EmptyPath(parts) == parts.path \in {"", "/"}

Pad2(n) == IF n < 10 THEN "0" \o ToString(n) ELSE ToString(n)

\* the day of the month d of month m of year y, if the calendar has it
CalendarDay(y, m, d) == IF d <= DaysInMonth(y, m) THEN Some(Ordinal(y, m, d)) ELSE None

DateYears == 2026..2028

\* YYYY-MM-DD for every month and every day number up to 31
PaddedDates ==
    { [date_iso |-> Some(ToString(y) \o "-" \o Pad2(m) \o "-" \o Pad2(d)),
       day |-> CalendarDay(y, m, d)] : y \in DateYears, m \in 1..12, d \in 1..31 }

\* dates written without leading zeros
UnpaddedDates ==
    { [date_iso |-> Some(ToString(y) \o "-" \o ToString(m) \o "-" \o ToString(d)),
       day |-> CalendarDay(y, m, d)] : y \in DateYears, m \in {2, 11}, d \in {5, 6, 29, 30} }

\* None, the empty text and texts that are no date
NoDates ==
    { [date_iso |-> text, day |-> None] :
        text \in {None, Some(""), Some("not a date"), Some("2027/03/14"), Some("14-03-2027"),
                  Some("2027-03"), Some("2027-13-01"), Some("2027-00-10"), Some("2027-03-00"),
                  Some("2027-03-32"), Some("2027-03-14 "), Some(" 2027-03-14"),
                  Some("2027-03-14T09:00:00"), Some("0000-03-14"), Some("27-03-14")} }

DateInputs == PaddedDates \cup UnpaddedDates \cup NoDates

\* 2026-11-06, the last day of 2026 and the leap day of 2028
ClockDays == {RunDay, Ordinal(2026, 12, 31), Ordinal(2028, 2, 29)}

MonthsInputs == {0, 1, FUTURE_MONTHS_DEFAULT, 24}

DateInit ==
    /\ pc = "date"
    /\ today \in ClockDays
    /\ job = 0
    /\ invoked = << >>
    /\ results = << >>
    /\ all_events = << >>
    /\ deduped = << >>
    /\ final_events = << >>
    /\ given \in { [date |-> date, max_months |-> k] : date \in DateInputs, k \in MonthsInputs }
    /\ seen = << >>
    /\ pos = 0
    /\ quality = None
    /\ output = None
    /\ exit_code = None
    /\ ret = None
    /\ writes = << >>
    /\ report = None

\* `not date_iso` holds of None as of the empty str
OrEmpty(text) == IF text = None THEN "" ELSE text[1]

\* ret = is_reasonable_future_date(date_iso, max_months)
IsReasonableFutureDate ==
    /\ pc = "date"
    /\ ret' = Some(is_reasonable_future_date(OrEmpty(given.date.date_iso), given.max_months))
    /\ pc' = "date_done"
    /\ UNCHANGED <<today, job, invoked, results, all_events, deduped, final_events,
                   given, seen, pos, quality, output, exit_code, writes, report>>

DateNext == IsReasonableFutureDate

SpecDate == DateInit /\ [][DateNext]_vars

\* C18: is_reasonable_future_date(date, maxMonths) is true exactly when date
\* is a valid date with today - 1 day <= date <= today + maxMonths*31 days,
\* both bounds inclusive; a null, empty or unparseable date is never
\* reasonable.
C18_DateWindow ==
    pc = "date_done" =>
        ret = Some(/\ given.date.day # None
                   /\ today - 1 <= given.date.day[1]
                   /\ given.date.day[1] <= today + given.max_months * 31)

\* the date of yesterday is reasonable
C18_Witness ==
    /\ pc = "date_done"
    /\ given.date.day = Some(today - 1)
    /\ given.max_months = 24
    /\ ret = Some(TRUE)
(***************************************************************************)
(* Specification SpecPrice: parse_price on one text, put together from a   *)
(* leading token, an amount or a word, and a trailing currency token.      *)
(***************************************************************************)
PriceLeads == {"", "€", "$", "£", "From "}

PriceAmounts == {"", "25", "12,50", "12.50", "0", "free", "TBD"}

PriceTails == {"", " EUR", " eur", " USD", " GBP", " MAD", "EUR", " €"}

PriceInputs ==
    {None, Some("   ")}
    \cup { Some(lead \o amount \o tail) : lead \in PriceLeads, amount \in PriceAmounts, tail \in PriceTails }

PriceInit ==
    /\ pc = "price"
    /\ today = 0
    /\ job = 0
    /\ invoked = << >>
    /\ results = << >>
    /\ all_events = << >>
    /\ deduped = << >>
    /\ final_events = << >>
    /\ given \in PriceInputs
    /\ seen = << >>
    /\ pos = 0
    /\ quality = None
    /\ output = None
    /\ exit_code = None
    /\ ret = None
    /\ writes = << >>
    /\ report = None

\* ret = parse_price(raw_price)
ParsePrice ==
    /\ pc = "price"
    /\ ret' = Some(parse_price(OrEmpty(given)))
    /\ pc' = "price_done"
    /\ UNCHANGED <<today, job, invoked, results, all_events, deduped, final_events,
                   given, seen, pos, quality, output, exit_code, writes, report>>

PriceNext == ParsePrice

SpecPrice == PriceInit /\ [][PriceNext]_vars

\* the text holds no digit
NoDigit(text) == \A i \in 1..Len(text) : CharAt(text, i) \notin DigitSet

\* C19: parse_price returns (null, null) for every input in which no number
\* is found, including inputs that carry a currency symbol or code but no
\* digits.
C19_NoNumberNoPair ==
    (pc = "price_done" /\ NoDigit(OrEmpty(given))) => ret = Some(<< None, None >>)

\* C20: the pair (amount, currency) returned by parse_price has both
\* components present or both absent.
C20_JointlyPresent ==
    pc = "price_done" => (ret[1][1] = None <=> ret[1][2] = None)
(***************************************************************************)
(* Specification SpecDistance: infer_distance on texts that hold any       *)
(* combination of the triggers of its eight rules, one trigger per rule,   *)
(* written in priority order or against it and spread over the three      *)
(* arguments.                                                              *)
(***************************************************************************)
\* per rule, in priority order: the triggers a text may hold and the result
DistanceRules ==
    << [triggers |-> {"70.3", "Half Ironman"}, result |-> "Half Ironman"],
       [triggers |-> {"5K", "5 km"}, result |-> "5km"],
       [triggers |-> {"10k", "10 km"}, result |-> "10km"],
       [triggers |-> {"Half Marathon", "21k"}, result |-> "Half Marathon"],
       [triggers |-> {"Marathon"}, result |-> "Marathon"],
       [triggers |-> {"Ultra", "50k", "100 mile", "Trail"}, result |-> "Ultra Trail"],
       [triggers |-> {"Ironman", "Triathlon", "Duathlon"}, result |-> "Ironman"],
       [triggers |-> {"Running"}, result |-> "10km"] >>

\* what a text may hold for rule r: one of its triggers, or nothing
TriggerOrNone(r) == DistanceRules[r].triggers \cup {""}

\* one trigger or none for every rule
TriggerChoices ==
    { << t1, t2, t3, t4, t5, t6, t7, t8 >> :
        t1 \in TriggerOrNone(1), t2 \in TriggerOrNone(2), t3 \in TriggerOrNone(3),
        t4 \in TriggerOrNone(4), t5 \in TriggerOrNone(5), t6 \in TriggerOrNone(6),
        t7 \in TriggerOrNone(7), t8 \in TriggerOrNone(8) }

\* the three arguments: the chosen triggers in priority order, or against it
DistanceArgs(choice, descending) ==
    IF descending
    THEN [name |-> choice[8] \o " " \o choice[7] \o " " \o choice[6],
          distances |-> choice[5] \o " " \o choice[4] \o " " \o choice[3],
          discipline_hint |-> choice[2] \o " " \o choice[1]]
    ELSE [name |-> choice[1] \o " " \o choice[2] \o " " \o choice[3],
          distances |-> choice[4] \o " " \o choice[5] \o " " \o choice[6],
          discipline_hint |-> choice[7] \o " " \o choice[8]]

DistanceInit ==
    /\ pc = "distance"
    /\ today = 0
    /\ job = 0
    /\ invoked = << >>
    /\ results = << >>
    /\ all_events = << >>
    /\ deduped = << >>
    /\ final_events = << >>
    /\ given \in { [choice |-> choice, args |-> DistanceArgs(choice, descending)] :
                    choice \in TriggerChoices, descending \in BOOLEAN }
    /\ seen = << >>
    /\ pos = 0
    /\ quality = None
    /\ output = None
    /\ exit_code = None
    /\ ret = None
    /\ writes = << >>
    /\ report = None

\* ret = infer_distance(name, distances, discipline_hint)
InferDistance ==
    /\ pc = "distance"
    /\ ret' = Some(infer_distance(given.args.name, given.args.distances, given.args.discipline_hint))
    /\ pc' = "distance_done"
    /\ UNCHANGED <<today, job, invoked, results, all_events, deduped, final_events,
                   given, seen, pos, quality, output, exit_code, writes, report>>

DistanceNext == InferDistance

SpecDistance == DistanceInit /\ [][DistanceNext]_vars

\* the rules that have a trigger in the text
RulesPresent(choice) == { r \in 1..Len(DistanceRules) : choice[r] # "" }

\* C21: infer_distance returns the result of the first rule that matches, in
\* the priority order Half-Ironman triggers > 5k > 10k > half-marathon
\* triggers > marathon > ultra/trail triggers > triathlon triggers > generic
\* 'running' (10km) > default Marathon; for every combination of triggers
\* present in the text, a lower-priority trigger never overrides a
\* higher-priority one.
C21_FirstRuleWins ==
    pc = "distance_done" =>
        LET present == RulesPresent(given.choice)
        IN  IF present = {} THEN ret = Some("Marathon")
            ELSE \E r \in present :
                    /\ \A q \in present : r <= q
                    /\ ret = Some(DistanceRules[r].result)

\* a text with the triggers of the rules 4 to 8, the lowest one first
C21_Witness ==
    /\ pc = "distance_done"
    /\ RulesPresent(given.choice) = 4..8
    /\ given.args.name = "Running Triathlon Trail"
    /\ given.args.distances = "Marathon 21k "
    /\ ret = Some("Half Marathon")
(***************************************************************************)
(* SpecParseDate: parse_date_to_iso applied to one listing text.  The      *)
(* texts are written from a year, a month and a day in the styles the      *)
(* sources use, and carry the date they were written from.                 *)
(***************************************************************************)
MonthLabels ==
    << "Jan", "Feb", "Mar", "Apr", "May", "Jun", "Jul", "Aug", "Sep", "Oct", "Nov", "Dec" >>

MonthTitles ==
    << "January", "February", "March", "April", "May", "June", "July", "August",
       "September", "October", "November", "December" >>

ListingYears == {2026, 2028}

ListingDays == {7, 15, 29, 31}

\* "2026-03-15" for a day of the calendar, None for a day it does not have
IsoOf(y, m, d) ==
    IF d > (IF m = 2 THEN (IF y % 4 = 0 THEN 29 ELSE 28)
            ELSE IF m \in {4, 6, 9, 11} THEN 30 ELSE 31)
    THEN None
    ELSE Some(ToString(y) \o "-" \o Pad2(m) \o "-" \o Pad2(d))

ListingStyles == {"listing", "range", "iso", "us", "eu", "long", "plain", "tight"}

ListingText(style, y, m, d) ==
    CASE style = "listing" -> Pad2(d) \o " " \o MonthLabels[m] \o ", " \o ToString(y) \o " (Sun)"
      [] style = "range" -> Pad2(d) \o "-" \o Pad2(d + 1) \o " " \o MonthLabels[m] \o ", "
                            \o ToString(y) \o " (Sat - Sun)"
      [] style = "iso" -> ToString(y) \o "-" \o Pad2(m) \o "-" \o Pad2(d)
      [] style = "us" -> Pad2(m) \o "/" \o Pad2(d) \o "/" \o ToString(y)
      [] style = "eu" -> Pad2(d) \o "/" \o Pad2(m) \o "/" \o ToString(y)
      [] style = "long" -> MonthTitles[m] \o " " \o ToString(d) \o ", " \o ToString(y)
      [] style = "plain" -> ToString(d) \o " " \o MonthTitles[m] \o " " \o ToString(y)
      [] style = "tight" -> MonthLabels[m] \o " " \o ToString(d) \o "," \o ToString(y)

\* a text with two slashes is read month first whenever that is a date
ListingDate(style, y, m, d) ==
    IF style = "eu" /\ d <= 12 THEN IsoOf(y, d, m) ELSE IsoOf(y, m, d)

UnsupportedTexts ==
    { "not a date", "", "TBD", "15 Mar", "Mar 2026", "2026-13-01", "15 Mar, 2026 (Sun",
      "15 Foo, 2026", "15-16-17 Mar, 2026", "(15 Mar, 2026)", "15 Mar, 26" }

ParseDateInputs ==
    { [text |-> ListingText(style, y, m, d), date |-> ListingDate(style, y, m, d)] :
        style \in ListingStyles, y \in ListingYears, m \in 1..12, d \in ListingDays }
    \cup { [text |-> t, date |-> None] : t \in UnsupportedTexts }

ParseDateInit ==
    /\ pc = "parse_date"
    /\ given \in ParseDateInputs
    /\ ret = None
    /\ today = 0 /\ job = 0 /\ invoked = << >> /\ results = << >>
    /\ all_events = << >> /\ deduped = << >> /\ final_events = << >>
    /\ seen = << >> /\ pos = 0 /\ quality = None /\ output = None /\ exit_code = None
    /\ writes = << >> /\ report = None

ParseDateToIso ==
    /\ pc = "parse_date"
    /\ ret' = parse_date_to_iso(given.text)
    /\ pc' = "parse_date_done"
    /\ UNCHANGED << today, job, invoked, results, all_events, deduped, final_events, given,
                    seen, pos, quality, output, exit_code, writes, report >>

ParseDateNext == ParseDateToIso

SpecParseDate == ParseDateInit /\ [][ParseDateNext]_vars

\* C22: parse_date_to_iso gives the ISO form of the date a listing text was
\* written from, the first day when the text starts with a range of days and
\* whatever weekday stands in parentheses, and None for a text in none of the
\* supported patterns; "15 Mar, 2026 (Sun)" gives "2026-03-15",
\* "07-08 Nov, 2026 (Sat - Sun)" gives "2026-11-07", "not a date" gives None.
C22_ListingDateToIso ==
    pc = "parse_date_done" =>
        /\ ret = given.date
        /\ given.text = "15 Mar, 2026 (Sun)" => ret = Some("2026-03-15")
        /\ given.text = "07-08 Nov, 2026 (Sat - Sun)" => ret = Some("2026-11-07")
        /\ given.text = "not a date" => ret = None

C22_Witness ==
    /\ pc = "parse_date_done"
    /\ given.text = "07-08 Nov, 2026 (Sat - Sun)"
    /\ ret = Some("2026-11-07")

(***************************************************************************)
(* SpecValidate: the validator command run once on an events file that is  *)
(* missing or holds a list of events, under limits given on the command    *)
(* line, the clock at RunDay.                                              *)
(***************************************************************************)
MaxValidateEvents == 2

ValidateEvent(id, date, registrationUrl, discipline, source, isFallback) ==
    RaceEvent(id, "City Race", date, "US", discipline, "10km", "", registrationUrl,
              None, None, None, source, isFallback)

\* 120 days after RunDay
HorizonDate == "2027-03-06"

\* two sound events, and one event for each way of failing a check
ValidateEvents ==
    { ValidateEvent("city-tri-20270601", "2027-06-01", SpecificUrl, "Triathlon", Some("RunSignup"), FALSE),
      ValidateEvent("city-race-20270601", "2027-06-01", SpecificUrl, "Running", Some("RunSignup"), FALSE),
      ValidateEvent("city-tri-20270601", "2027-05-01", SpecificUrl, "Trail", Some("UltraSignup"), FALSE),
      ValidateEvent("lake-run-20270230", "2027-02-30", SpecificUrl, "Running", Some("RunSignup"), FALSE),
      ValidateEvent("hill-run-20270601", "2027-06-01", GenericUrl, "Running", Some("RunSignup"), FALSE),
      ValidateEvent("bay-run-20270601", "2027-06-01", SpecificUrl, "Running", None, TRUE),
      ValidateEvent("park-run-20270306", HorizonDate, SpecificUrl, "Running", Some("Ahotu/Running"), FALSE) }

LaxLimits ==
    [min_events |-> 1, min_disciplines |-> 1, min_triathlon_events |-> 0,
     max_fallback_ratio |-> Ratio(1, 1), max_generic_url_ratio |-> Ratio(1, 2),
     min_future_horizon_days |-> 120, min_contributing_sources |-> 0]

StrictLimits ==
    [min_events |-> 2, min_disciplines |-> 2, min_triathlon_events |-> 1,
     max_fallback_ratio |-> Ratio(35, 100), max_generic_url_ratio |-> Ratio(8, 100),
     min_future_horizon_days |-> 120, min_contributing_sources |-> 1]

\* the lax limits, the lax limits with one limit made strict, the strict limits
ValidateLimits ==
    {LaxLimits, StrictLimits}
    \cup { [LaxLimits EXCEPT ![name] = StrictLimits[name]] : name \in DOMAIN LaxLimits }

ValidateFiles ==
    {None} \cup { Some([events |-> events]) : events \in SeqsUpTo(ValidateEvents, MaxValidateEvents) }

ValidateInit ==
    /\ pc = "validate"
    /\ today = RunDay
    /\ given \in { [file |-> file, limits |-> limits, now |-> [day |-> RunDay, midnight |-> midnight]] :
                     file \in ValidateFiles, limits \in ValidateLimits, midnight \in BOOLEAN }
    /\ ret = None /\ report = None
    /\ job = 0 /\ invoked = << >> /\ results = << >>
    /\ all_events = << >> /\ deduped = << >> /\ final_events = << >>
    /\ seen = << >> /\ pos = 0 /\ quality = None /\ output = None /\ exit_code = None
    /\ writes = << >>

ValidateMain ==
    /\ pc = "validate"
    /\ LET done == validate_main(given.file, given.limits, given.now)
       IN  /\ report' = done.report
           /\ ret' = Some([exit |-> done.exit, failed |-> done.failed])
    /\ pc' = "validate_done"
    /\ UNCHANGED << today, job, invoked, results, all_events, deduped, final_events, given,
                    seen, pos, quality, output, exit_code, writes >>

ValidateNext == ValidateMain

SpecValidate == ValidateInit /\ [][ValidateNext]_vars

NineChecks ==
    { "min_events", "duplicate_ids", "invalid_dates", "generic_url_ratio", "fallback_ratio",
      "min_disciplines", "min_triathlon_events", "future_horizon", "source_diversity" }

\* C23: the validator command exits with 1 when the events file is missing;
\* otherwise the checks map of its report holds one boolean for each of the
\* nine checks, the command exits with 0 when all of them are true and with
\* 1 when at least one is false, and the names it prints are those of the
\* false checks.
C23_ExitIsConjunction ==
    pc = "validate_done" =>
        IF given.file = None
        THEN ret[1].exit = 1 /\ report = None
        ELSE /\ report # None
             /\ DOMAIN report[1].checks = NineChecks
             /\ \A name \in NineChecks : report[1].checks[name] \in BOOLEAN
             /\ ret[1].exit \in {0, 1}
             /\ ret[1].exit = 0 <=> \A name \in NineChecks : report[1].checks[name]
             /\ ret[1].exit # 0 <=> \E name \in NineChecks : ~report[1].checks[name]
             /\ { ret[1].failed[k] : k \in 1..Len(ret[1].failed) }
                    = { name \in NineChecks : ~report[1].checks[name] }

\* a run in which the horizon check alone fails
C23_Witness ==
    /\ pc = "validate_done"
    /\ report # None
    /\ ret[1].exit = 1
    /\ \A name \in NineChecks : report[1].checks[name] <=> name # "future_horizon"

====
